---- MODULE Spec2Model ----
(***************************************************************************)
(* Response-orchestration layer of Google Foods: mode resolution, the      *)
(* recommendation parser, grounding-source extraction, the video poll loop,*)
(* the session state driven by handleSearch, the two text services called  *)
(* directly, and the recipe modal with its screen wake lock.               *)
(*                                                                         *)
(* Text is modelled as a sequence of tokens.  The literal markers the code *)
(* looks for are single tokens; every other character is a letter, a space *)
(* or a newline.                                                           *)
(***************************************************************************)
EXTENDS Integers, Sequences, FiniteSets, TLC

VARIABLES
    respPre,      \* parser input: text before the first block
    respSegs,     \* parser input: the blocks of the response text, as descriptors
    parsed,       \* None, or Some(result of the recommendation parser)
    chunks,       \* source input: the grounding chunks of a response
    extracted,    \* None, or Some(extractSources(chunks))
    shown,        \* None, or Some(list the SourceList component renders)
    cfg,          \* a direct call of getModelConfig or getDishRecipe
    state,        \* App: the SearchState held by useState
    mode,         \* App: the selected AppMode
    imageSize,    \* App: the selected image size
    env,          \* the browser: which optional facilities exist
    calls,        \* the invocations of handleSearch, by slot
    recipeCall,   \* a call of getDishRecipe from its request on
    svc,          \* a direct call of getFoodRecommendations or getDishRecipe
    modal         \* RecipeModal: its state, its wake lock and its pending promises

parseVars == <<respPre, respSegs, parsed>>
srcVars == <<chunks, extracted, shown>>
appVars == <<state, mode, imageSize, calls>>
vars == <<respPre, respSegs, parsed, chunks, extracted, shown, cfg, state, mode,
          imageSize, env, calls, recipeCall, svc, modal>>

(***************************************************************************)
(* Optional values: undefined / null is None, a value v is Some(v).        *)
(***************************************************************************)
None == <<>>
Some(v) == <<v>>
IsSome(o) == o # <<>>
Val(o) == o[1]

(***************************************************************************)
(* Tokens of a text.                                                       *)
(***************************************************************************)
ITEM_START == "### ITEM_START"
ITEM_END == "### ITEM_END"
NAME == "Name:"
DESC == "Description:"
SP == " "
NL == "\n"
IsSpace(c) == c \in {SP, NL}

\* String.prototype.trim
RECURSIVE TrimLeft(_)
TrimLeft(s) == IF s # <<>> /\ IsSpace(Head(s)) THEN TrimLeft(Tail(s)) ELSE s

RECURSIVE TrimRight(_)
TrimRight(s) ==
    IF s # <<>> /\ IsSpace(s[Len(s)]) THEN TrimRight(SubSeq(s, 1, Len(s) - 1)) ELSE s

Trim(s) == TrimRight(TrimLeft(s))

\* String.prototype.includes, for a one-token needle
Includes(s, tok) == \E i \in 1..Len(s) : s[i] = tok

\* String.prototype.split, for a one-token separator: the pieces between
\* occurrences of the separator, the piece before the first one included.
RECURSIVE Split(_, _)
Split(s, tok) ==
    IF ~Includes(s, tok) THEN <<s>>
    ELSE LET i == CHOOSE k \in 1..Len(s) : s[k] = tok /\ \A j \in 1..(k - 1) : s[j] # tok
         IN  <<SubSeq(s, 1, i - 1)>> \o Split(SubSeq(s, i + 1, Len(s)), tok)

\* Index of the last token of the line that holds position p.
EndOfLine(s, p) ==
    IF \E k \in p..Len(s) : s[k] = NL
    THEN (CHOOSE k \in p..Len(s) : s[k] = NL /\ \A j \in p..(k - 1) : s[j] # NL) - 1
    ELSE Len(s)

\* Where the capture group starts for a match of  key \s* (.+)  whose key is
\* at position i: \s* is greedy and gives back only as far as (.+) needs.
\* dotAll says whether . matches a newline.  0 when there is no match at i.
GroupStart(s, i, dotAll) ==
    LET stop == IF \E k \in (i + 1)..Len(s) : ~IsSpace(s[k])
                THEN CHOOSE k \in (i + 1)..Len(s) :
                        ~IsSpace(s[k]) /\ \A j \in (i + 1)..(k - 1) : IsSpace(s[j])
                ELSE Len(s)
        ok == {p \in (i + 1)..stop : dotAll \/ s[p] # NL}
    IN  IF ok = {} THEN 0 ELSE CHOOSE p \in ok : \A q \in ok : q <= p

\* s.match(/key\s*(.+)/) or, with dotAll, s.match(/key\s*(.+)/s): None, or
\* Some(capture group 1) of the leftmost match.
Match(s, key, dotAll) ==
    LET at == {i \in 1..Len(s) : s[i] = key /\ GroupStart(s, i, dotAll) # 0}
    IN  IF at = {} THEN None
        ELSE LET i == CHOOSE k \in at : \A j \in at : k <= j
                 p == GroupStart(s, i, dotAll)
             IN  Some(SubSeq(s, p, IF dotAll THEN Len(s) ELSE EndOfLine(s, p)))

(***************************************************************************)
(* getFoodRecommendations: the parser of the response text.                *)
(***************************************************************************)
RecId(index) == "rec-" \o ToString(index)

\* Mutant of ParsePart: the captured groups are stored without .trim().
ParsePartUntrimmed(part, index) ==
    IF ~Includes(part, ITEM_END) THEN <<>>
    ELSE LET content == Trim(Split(part, ITEM_END)[1])
             nameMatch == Match(content, NAME, FALSE)
             descMatch == Match(content, DESC, TRUE)
         IN  IF IsSome(nameMatch) /\ IsSome(descMatch)
             THEN << [id |-> RecId(index),
                      title |-> Val(nameMatch),
                      description |-> Val(descMatch),
                      sources |-> <<>>] >>
             ELSE <<>>

\* Mutant of ParsePart: a part without the end marker is parsed as well.
ParsePartKeepsUnterminated(part, index) ==
    LET content == Trim(Split(part, ITEM_END)[1])
        nameMatch == Match(content, NAME, FALSE)
        descMatch == Match(content, DESC, TRUE)
    IN  IF IsSome(nameMatch) /\ IsSome(descMatch)
        THEN << [id |-> RecId(index),
                 title |-> Trim(Val(nameMatch)),
                 description |-> Trim(Val(descMatch)),
                 sources |-> <<>>] >>
        ELSE <<>>

\* The body of parts.forEach((part, index) => ...): the items pushed for one
\* part (none or one).  index is the 0-based index of the part.
ParsePart(part, index) ==
    IF ~Includes(part, ITEM_END) THEN <<>>
    ELSE LET content == Trim(Split(part, ITEM_END)[1])
             nameMatch == Match(content, NAME, FALSE)
             descMatch == Match(content, DESC, TRUE)
         IN  IF IsSome(nameMatch) /\ IsSome(descMatch)
             THEN << [id |-> RecId(index),
                      title |-> Trim(Val(nameMatch)),
                      description |-> Trim(Val(descMatch)),
                      sources |-> <<>>] >>
             ELSE <<>>

\* Mutant of ParseParts: the identifier counts the items kept so far.
RECURSIVE ParsePartsFiltered(_, _)
ParsePartsFiltered(parts, k) ==
    IF k > Len(parts) THEN <<>>
    ELSE ParsePart(parts[k], Cardinality({j \in 1..(k - 1) : ParsePart(parts[j], 0) # <<>>}))
         \o ParsePartsFiltered(parts, k + 1)

RECURSIVE ParseParts(_, _)
ParseParts(parts, k) ==
    IF k > Len(parts) THEN <<>>
    ELSE ParsePart(parts[k], k - 1) \o ParseParts(parts, k + 1)

ParseRecommendations(text) == ParseParts(Split(text, ITEM_START), 1)

(***************************************************************************)
(* extractSources and the SourceList component.                            *)
(* A grounding chunk is [web, maps], each None or Some([title, uri]); a    *)
(* missing or empty title or uri is "" (both are falsy for || and if).     *)
(***************************************************************************)
OrElse(s, dflt) == IF s = "" THEN dflt ELSE s

\* The callback of flatMap: the sources one chunk gives.
ChunkSources(chunk) ==
    (IF IsSome(chunk.web)
     THEN << [title |-> OrElse(Val(chunk.web).title, "Web Source"),
              uri |-> OrElse(Val(chunk.web).uri, "#")] >>
     ELSE <<>>)
    \o
    (IF IsSome(chunk.maps) /\ Val(chunk.maps).uri # ""
     THEN << [title |-> OrElse(Val(chunk.maps).title, "Google Maps Location"),
              uri |-> Val(chunk.maps).uri] >>
     ELSE <<>>)

RECURSIVE FlatMapSources(_)
FlatMapSources(cs) ==
    IF cs = <<>> THEN <<>> ELSE ChunkSources(Head(cs)) \o FlatMapSources(Tail(cs))

\* Mutant of ExtractSources: a source is dropped when an earlier one has its URI.
ExtractSourcesOncePerUri(groundingChunks) ==
    LET all == FlatMapSources(groundingChunks)
        keep == {i \in 1..Len(all) :
                    all[i].uri # "#" /\ \A j \in 1..(i - 1) : all[j].uri # all[i].uri}
        F[i \in 0..Len(all)] ==
            IF i = 0 THEN <<>> ELSE IF i \in keep THEN Append(F[i - 1], all[i]) ELSE F[i - 1]
    IN  F[Len(all)]

KeepSource(s) == s.uri # "#"

ExtractSources(groundingChunks) == SelectSeq(FlatMapSources(groundingChunks), KeepSource)

\* Mutant of MapSet: an existing key keeps its first value.
MapSetKeepFirst(m, k, v) ==
    IF \E i \in 1..Len(m) : m[i].key = k THEN m ELSE Append(m, [key |-> k, value |-> v])

\* Map.prototype.set on a Map kept as its entries in insertion order: an
\* existing key keeps its place and takes the new value.
MapSet(m, k, v) ==
    IF \E i \in 1..Len(m) : m[i].key = k
    THEN [i \in 1..Len(m) |-> IF m[i].key = k THEN [key |-> k, value |-> v] ELSE m[i]]
    ELSE Append(m, [key |-> k, value |-> v])

\* new Map(entries)
RECURSIVE MapFrom(_, _)
MapFrom(m, entries) ==
    IF entries = <<>> THEN m
    ELSE MapFrom(MapSet(m, Head(entries).uri, Head(entries)), Tail(entries))

\* Array.from(map.values())
MapValues(m) == [i \in 1..Len(m) |-> m[i].value]

\* SourceList: the sources it renders (nothing for an empty list).
UniqueSources(sources) == MapValues(MapFrom(<<>>, sources))

SourceList(sources) == IF Len(sources) = 0 THEN <<>> ELSE UniqueSources(sources)

(***************************************************************************)
(* getCurrentLocation and getModelConfig (the Mode Resolver).              *)
(* A location is None (no provider, denied, failed, timed out) or          *)
(* Some([latitude, longitude]).                                            *)
(***************************************************************************)
AppModes == {"normal", "fast", "thinking", "video", "image", "search_agent", "restaurants"}
UnknownMode == "unknown_mode"
ModeValues == AppModes \cup {UnknownMode}

FlashModel == "gemini-2.5-flash"
LiteModel == "gemini-2.5-flash-lite"
ProModel == "gemini-3-pro-preview"
GoogleSearch == "googleSearch"
GoogleMaps == "googleMaps"
ThinkingBudget == 32768

Coords == { [latitude |-> 48, longitude |-> 2], [latitude |-> -33, longitude |-> 151] }
Locations == {None} \cup {Some(c) : c \in Coords}

\* getModelConfig awaits getCurrentLocation in this branch only.
AsksLocation(m) == m = "restaurants"

\* Mutant of GetModelConfig: image mode takes the thinking branch.
GetModelConfigImageThinks(m, location) ==
    [model |-> IF m = "fast" THEN LiteModel
               ELSE IF m \in {"thinking", "image"} THEN ProModel ELSE FlashModel,
     config |-> [tools |-> IF m = "restaurants" THEN <<GoogleMaps>> ELSE <<GoogleSearch>>,
                 thinkingConfig |-> IF m \in {"thinking", "image"}
                                    THEN Some([thinkingBudget |-> ThinkingBudget])
                                    ELSE None],
     toolConfig |-> IF m = "restaurants" /\ IsSome(location)
                    THEN Some([retrievalConfig |-> [latLng |-> Val(location)]])
                    ELSE None]

\* Mutant of GetModelConfig: the maps tool is pushed onto the default tools.
GetModelConfigPushesTool(m, location) ==
    [model |-> IF m = "fast" THEN LiteModel
               ELSE IF m = "thinking" THEN ProModel ELSE FlashModel,
     config |-> [tools |-> IF m = "restaurants" THEN <<GoogleSearch, GoogleMaps>>
                           ELSE <<GoogleSearch>>,
                 thinkingConfig |-> IF m = "thinking"
                                    THEN Some([thinkingBudget |-> ThinkingBudget])
                                    ELSE None],
     toolConfig |-> IF m = "restaurants" /\ IsSome(location)
                    THEN Some([retrievalConfig |-> [latLng |-> Val(location)]])
                    ELSE None]

\* getModelConfig(mode), given what getCurrentLocation resolved to (read in
\* the restaurants branch only).  The defaults stand for every mode without a
\* branch of its own.
GetModelConfig(m, location) ==
    LET dfltModel == FlashModel
        dfltConfig == [tools |-> <<GoogleSearch>>, thinkingConfig |-> None]
    IN  CASE m = "fast" ->
               [model |-> LiteModel, config |-> dfltConfig, toolConfig |-> None]
          [] m = "thinking" ->
               [model |-> ProModel,
                config |-> [dfltConfig EXCEPT
                              !.thinkingConfig = Some([thinkingBudget |-> ThinkingBudget])],
                toolConfig |-> None]
          [] m = "restaurants" ->
               [model |-> dfltModel,
                config |-> [dfltConfig EXCEPT !.tools = <<GoogleMaps>>],
                toolConfig |-> IF IsSome(location)
                               THEN Some([retrievalConfig |-> [latLng |-> Val(location)]])
                               ELSE None]
          [] m = "search_agent" ->
               [model |-> FlashModel,
                config |-> [dfltConfig EXCEPT !.tools = <<GoogleSearch>>],
                toolConfig |-> None]
          [] OTHER ->
               [model |-> dfltModel, config |-> dfltConfig, toolConfig |-> None]

(***************************************************************************)
(* getDishRecipe: the configuration and the request of a recipe lookup.    *)
(***************************************************************************)
\* Mutant of EffectiveMode: restaurants is not coerced.
EffectiveModeKeepsRestaurants(m) ==
    IF m \in {"video", "image", "search_agent"} THEN "normal" ELSE m

EffectiveMode(m) ==
    IF m = "video" \/ m = "image" \/ m = "restaurants" \/ m = "search_agent"
    THEN "normal" ELSE m

\* The argument of generateContent: toolConfig is not passed on.
RecipeRequest(dishName, resolved) ==
    [model |-> resolved.model,
     contents |-> [prompt |-> "recipe", dishName |-> dishName],
     config |-> resolved.config]

(***************************************************************************)
(* getDishRecipe: the parser of the recipe text.                           *)
(***************************************************************************)
PREP_TIME == "PREP_TIME:"
SERVINGS == "SERVINGS:"
INGREDIENTS_START == "INGREDIENTS_START"
INGREDIENTS_END == "INGREDIENTS_END"
INSTRUCTIONS_START == "INSTRUCTIONS_START"
INSTRUCTIONS_END == "INSTRUCTIONS_END"
DASH == "-"
STAR == "*"
DOT == "."
Digits == {"1", "2"}
Varies == <<"Varies">>

\* Mutant of FieldOrVaries: a field that is not found is left empty.
FieldOrEmpty(m) == IF IsSome(m) THEN Val(m) ELSE <<>>

\* text.match(...)?.[1] || "Varies"
FieldOrVaries(m) == IF IsSome(m) /\ Val(m) # <<>> THEN Val(m) ELSE Varies

\* Mutant of BlockOf: the piece before the start marker is taken.
BlockOfFirstPiece(text, start, end) == Split(Split(text, start)[1], end)[1]

\* text.split(start)[1]?.split(end)[0] || ""
BlockOf(text, start, end) ==
    LET pieces == Split(text, start)
    IN  IF Len(pieces) < 2 THEN <<>> ELSE Split(pieces[2], end)[1]

\* line.replace(/^-\s*/, "") and line.replace(/^\*\s*/, "")
StripMarker(line, marker) ==
    IF line # <<>> /\ Head(line) = marker THEN TrimLeft(Tail(line)) ELSE line

\* The number of digits a line starts with.
RECURSIVE LeadingDigits(_)
LeadingDigits(line) ==
    IF line # <<>> /\ Head(line) \in Digits THEN 1 + LeadingDigits(Tail(line)) ELSE 0

\* line.replace(/^\d+\.\s*/, "")
StripOrdinal(line) ==
    LET n == LeadingDigits(line)
    IN  IF n >= 1 /\ Len(line) > n /\ line[n + 1] = DOT
        THEN TrimLeft(SubSeq(line, n + 2, Len(line)))
        ELSE line

\* Mutant of IngredientLine: a leading asterisk is kept.
IngredientLineKeepsStar(line) == StripMarker(Trim(line), DASH)

IngredientLine(line) == StripMarker(StripMarker(Trim(line), DASH), STAR)

InstructionLine(line) == StripOrdinal(Trim(line))

NotEmptyLine(line) == Len(line) > 0

\* ingredientsBlock.split("\n").map(...).filter(line => line.length > 0)
IngredientsOf(block) ==
    LET lines == Split(block, NL)
    IN  SelectSeq([i \in 1..Len(lines) |-> IngredientLine(lines[i])], NotEmptyLine)

\* instructionsBlock.split("\n").map(...).filter(line => line.length > 0)
InstructionsOf(block) ==
    LET lines == Split(block, NL)
    IN  SelectSeq([i \in 1..Len(lines) |-> InstructionLine(lines[i])], NotEmptyLine)

\* What getDishRecipe returns for a response: response.text is None when the
\* response has no text.
ParseRecipe(dishName, responseText, groundingChunks) ==
    LET text == IF IsSome(responseText) THEN Val(responseText) ELSE <<>>
        prepTime == FieldOrVaries(Match(text, PREP_TIME, FALSE))
        servings == FieldOrVaries(Match(text, SERVINGS, FALSE))
    IN  [dishName |-> dishName,
         prepTime |-> Trim(prepTime),
         servings |-> Trim(servings),
         ingredients |->
             IngredientsOf(BlockOf(text, INGREDIENTS_START, INGREDIENTS_END)),
         instructions |->
             InstructionsOf(BlockOf(text, INSTRUCTIONS_START, INSTRUCTIONS_END)),
         sources |-> ExtractSources(groundingChunks)]

(***************************************************************************)
(* Inputs of the parser: a response text is a preamble followed by blocks. *)
(***************************************************************************)
MaxSegs == 3
MaxChunks == 3

RECURSIVE SeqsUpTo(_, _)
SeqsUpTo(S, n) ==
    IF n = 0 THEN {<<>>}
    ELSE LET shorter == SeqsUpTo(S, n - 1)
         IN  shorter \cup {Append(q, x) : q \in {r \in shorter : Len(r) = n - 1}, x \in S}

Blk(lead, name, desc, hasName, hasDesc, hasEnd, tail) ==
    [lead |-> lead, name |-> name, desc |-> desc, hasName |-> hasName,
     hasDesc |-> hasDesc, hasEnd |-> hasEnd, tail |-> tail]

Render(b) ==
    <<ITEM_START>> \o b.lead
    \o (IF b.hasName THEN <<NAME>> \o b.name \o <<NL>> ELSE <<>>)
    \o (IF b.hasDesc THEN <<DESC>> \o b.desc ELSE <<>>)
    \o (IF b.hasEnd THEN <<ITEM_END>> ELSE <<>>)
    \o b.tail

RECURSIVE RenderAll(_)
RenderAll(bs) == IF bs = <<>> THEN <<>> ELSE Render(Head(bs)) \o RenderAll(Tail(bs))

BlockNames == { <<SP, "a">>, <<"a", SP, "b", SP>> }
BlockDescs == { <<SP, "b">>, <<"b", SP, "a", NL>> }

GoodBlocks ==
    {Blk(<<NL>>, n, d, TRUE, TRUE, TRUE, <<NL>>) : n \in BlockNames, d \in BlockDescs}
    \cup {Blk(<<>>, <<"a">>, <<"b">>, TRUE, TRUE, TRUE, <<>>)}

BadBlocks ==
    { Blk(<<NL>>, <<SP, "a">>, <<SP, "b", NL>>, TRUE, TRUE, FALSE, <<>>),
      Blk(<<NL>>, <<>>, <<SP, "b", NL>>, FALSE, TRUE, TRUE, <<NL>>),
      Blk(<<NL>>, <<SP, "a">>, <<>>, TRUE, FALSE, TRUE, <<NL>>) }

\* Blocks at the edge of the format: a Description: with no value, and the
\* two fields placed after the end marker.
EdgeBlocks ==
    { Blk(<<NL>>, <<SP, "a">>, <<NL>>, TRUE, TRUE, TRUE, <<NL>>),
      Blk(<<NL>>, <<>>, <<>>, FALSE, FALSE, TRUE, <<NL, NAME, SP, "a", NL, DESC, SP, "b", NL>>) }

BlockPool == GoodBlocks \cup BadBlocks \cup EdgeBlocks

PlainPreambles == { <<>>, <<"a", NL>> }
Preambles == PlainPreambles \cup { <<NAME, SP, "b", NL, DESC, SP, "a", ITEM_END, NL>> }

WebChunk(t, u) == [web |-> Some([title |-> t, uri |-> u]), maps |-> None]
MapsChunk(t, u) == [web |-> None, maps |-> Some([title |-> t, uri |-> u])]

ChunkPool ==
    {WebChunk(t, u) : t \in {"A", "B", "C"}, u \in {"x", "y"}}
    \cup { WebChunk("", "x"), WebChunk("A", ""),
           MapsChunk("B", "y"), MapsChunk("", "x"), MapsChunk("A", ""),
           [web |-> Some([title |-> "A", uri |-> "x"]),
            maps |-> Some([title |-> "C", uri |-> "y"])] }

\* The response text of the parser's input.
ResponseText == respPre \o RenderAll(respSegs)

ParseIdle == respPre = <<>> /\ respSegs = <<>> /\ parsed = None
SrcIdle == chunks = <<>> /\ extracted = None /\ shown = None

(***************************************************************************)
(* The session state of App and the objects handleSearch passes to         *)
(* setState.  A field left out of the object is undefined (None).          *)
(***************************************************************************)
VideoFileMsg ==
    "Video generation from files is not supported yet. Please use text mode or remove the file."
VideoErrMsg == "Could not generate video. Please try again later."
ImageFileMsg ==
    "Image generation from files is not supported yet. Please use text mode or remove the file."
ImageErrMsg == "Could not generate image. Please try again later."
RecsErrMsg ==
    "Oops! We couldn't find that right now. Please check your connection or API key."

\* useState's initial value
InitialState ==
    [isLoading |-> FALSE, results |-> <<>>, error |-> None, rawText |-> None,
     allSources |-> Some(<<>>), videoUrl |-> None, imageUrl |-> None]

\* setState(prev => ({...prev, isLoading: true, ...})) at the start of handleSearch
LoadingState(prev) ==
    [prev EXCEPT !.isLoading = TRUE, !.error = None, !.results = <<>>,
                 !.allSources = Some(<<>>), !.videoUrl = None, !.imageUrl = None]

\* Mutant of ErrorState: the error is merged into the previous state.
ErrorStateMerged(msg) ==
    [state EXCEPT !.isLoading = FALSE, !.results = <<>>, !.error = Some(msg),
                  !.allSources = Some(<<>>)]

\* setState({isLoading: false, results: [], error: msg, allSources: []})
ErrorState(msg) ==
    [isLoading |-> FALSE, results |-> <<>>, error |-> Some(msg), rawText |-> None,
     allSources |-> Some(<<>>), videoUrl |-> None, imageUrl |-> None]

\* setState({isLoading: false, results: [], error: null, videoUrl})
VideoState(videoUrl) ==
    [isLoading |-> FALSE, results |-> <<>>, error |-> None, rawText |-> None,
     allSources |-> None, videoUrl |-> Some(videoUrl), imageUrl |-> None]

\* Mutant of ImageState: the object copied from the video branch keeps videoUrl.
ImageStateKeepsVideoUrl(imageUrl) ==
    [isLoading |-> FALSE, results |-> <<>>, error |-> None, rawText |-> None,
     allSources |-> None, videoUrl |-> Some(imageUrl), imageUrl |-> Some(imageUrl)]

\* setState({isLoading: false, results: [], error: null, imageUrl})
ImageState(imageUrl) ==
    [isLoading |-> FALSE, results |-> <<>>, error |-> None, rawText |-> None,
     allSources |-> None, videoUrl |-> None, imageUrl |-> Some(imageUrl)]

\* Mutant of RecsState: a response without items is reported as an error.
RecsStateErrorOnEmpty(data) ==
    IF data.recommendations = <<>>
    THEN [isLoading |-> FALSE, results |-> <<>>, error |-> Some(RecsErrMsg),
          rawText |-> None, allSources |-> Some(<<>>), videoUrl |-> None, imageUrl |-> None]
    ELSE [isLoading |-> FALSE, results |-> data.recommendations, error |-> None,
          rawText |-> Some(data.rawText), allSources |-> Some(data.allSources),
          videoUrl |-> None, imageUrl |-> None]

\* Mutant of RecsState: the update is merged into the previous state.
RecsStateMerged(data) ==
    [state EXCEPT !.isLoading = FALSE, !.results = data.recommendations, !.error = None,
                  !.rawText = Some(data.rawText), !.allSources = Some(data.allSources)]

\* setState({isLoading: false, results, rawText, allSources, error: null})
RecsState(data) ==
    [isLoading |-> FALSE, results |-> data.recommendations, error |-> None,
     rawText |-> Some(data.rawText), allSources |-> Some(data.allSources),
     videoUrl |-> None, imageUrl |-> None]

\* const showRawText = state.results.length === 0 && state.rawText &&
\*                     !state.isLoading && !state.videoUrl && !state.imageUrl
ShowRawText ==
    /\ Len(state.results) = 0
    /\ IsSome(state.rawText) /\ Val(state.rawText) # <<>>
    /\ ~state.isLoading
    /\ state.videoUrl = None
    /\ state.imageUrl = None

\* The blocks of the page that App renders below the search bar.
Rendered ==
    (IF Len(state.results) = 0 /\ ~state.isLoading /\ state.videoUrl = None
        /\ state.imageUrl = None THEN {"tags"} ELSE {})
    \cup (IF state.isLoading THEN {"loading"} ELSE {})
    \cup (IF ~state.isLoading /\ IsSome(state.videoUrl) THEN {"video"} ELSE {})
    \cup (IF ~state.isLoading /\ IsSome(state.imageUrl) THEN {"image"} ELSE {})
    \cup (IF ~state.isLoading /\ Len(state.results) > 0 THEN {"results"} ELSE {})
    \cup (IF ShowRawText THEN {"rawText"} ELSE {})
    \cup (IF IsSome(state.error) THEN {"error"} ELSE {})

MaxInFlight == 2
CallIds == 1..MaxInFlight

IdleCall ==
    [pc |-> "idle", mode |-> "normal", query |-> "", att |-> None, size |-> "1K",
     op |-> None, notDone |-> 0, refreshes |-> 0, waits |-> 0, geoAsked |-> FALSE,
     request |-> None, result |-> None]

EnvIdle == env = [geolocation |-> FALSE, aistudio |-> FALSE]

AppIdle ==
    /\ state = InitialState
    /\ mode = "normal"
    /\ imageSize = "1K"
    /\ calls = [c \in CallIds |-> IdleCall]

RecipeIdle ==
    recipeCall = [pc |-> "idle", dishName |-> "", input |-> None, chunks |-> <<>>,
                  out |-> None]

SvcIdle ==
    svc = [fn |-> "none", pc |-> "idle", mode |-> "normal", query |-> "", att |-> None,
           dishName |-> "", geoAsked |-> FALSE, outcome |-> "none", location |-> None,
           sent |-> 0, request |-> None, out |-> None]

\* RecipeModal is not mounted and the browser holds no wake lock.
ClosedModal ==
    [open |-> FALSE, item |-> "", recipe |-> None, loading |-> FALSE, error |-> None,
     isCookMode |-> FALSE, currentStep |-> 0, loads |-> 0, retries |-> 0,
     api |-> FALSE, visible |-> TRUE, ref |-> "null", orphans |-> 0,
     pending |-> 0, stalePending |-> 0, releaseFailed |-> FALSE]

ModalIdle == modal = ClosedModal

Dishes == {"Ramen", "Pad Thai", "Sushi"}
Envs == [geolocation : BOOLEAN, aistudio : BOOLEAN]

CfgIdle ==
    cfg = [fn |-> "none", mode |-> "normal", dish |-> "", pc |-> "idle",
           geoAsked |-> FALSE, out |-> None]

(***************************************************************************)
(* SpecConfig: getModelConfig and getDishRecipe called with every mode     *)
(* value.                                                                  *)
(***************************************************************************)
\* What the call holds once getModelConfig has resolved.
CfgOut(fn, dish, resolved) ==
    IF fn = "getDishRecipe" THEN Some(RecipeRequest(dish, resolved)) ELSE Some(resolved)

\* A call up to its first suspension: getModelConfig(m) runs to its return
\* unless it has to await the geolocation provider.
CfgEnter(fn, m, dish) ==
    LET eff == IF fn = "getDishRecipe" THEN EffectiveMode(m) ELSE m
    IN  /\ cfg.pc \in {"idle", "returned"}
        /\ cfg' = IF AsksLocation(eff) /\ env.geolocation
                  THEN [fn |-> fn, mode |-> m, dish |-> dish, pc |-> "locating",
                        geoAsked |-> TRUE, out |-> None]
                  ELSE [fn |-> fn, mode |-> m, dish |-> dish, pc |-> "returned",
                        geoAsked |-> FALSE,
                        out |-> CfgOut(fn, dish, GetModelConfig(eff, None))]
        /\ UNCHANGED <<parseVars, srcVars, recipeCall, env, appVars, svc, modal>>

CallGetModelConfig == \E m \in ModeValues : CfgEnter("getModelConfig", m, "")

CallGetDishRecipe == \E m \in ModeValues, d \in Dishes : CfgEnter("getDishRecipe", m, d)

\* getCurrentPosition calls back: a position, or an error (denied, timeout).
CfgLocate ==
    /\ cfg.pc = "locating"
    /\ \E location \in Locations :
          LET eff == IF cfg.fn = "getDishRecipe" THEN EffectiveMode(cfg.mode) ELSE cfg.mode
          IN  cfg' = [cfg EXCEPT !.pc = "returned",
                                 !.out = CfgOut(cfg.fn, cfg.dish, GetModelConfig(eff, location))]
    /\ UNCHANGED <<parseVars, srcVars, recipeCall, env, appVars, svc, modal>>

CfgInit ==
    CfgIdle /\ env \in Envs /\ ParseIdle /\ SrcIdle /\ AppIdle /\ RecipeIdle /\ SvcIdle /\ ModalIdle

CfgNext == CallGetModelConfig \/ CallGetDishRecipe \/ CfgLocate

SpecConfig == CfgInit /\ [][CfgNext]_vars

(***************************************************************************)
(* SpecParse: the recommendation parser applied to every input text.       *)
(***************************************************************************)
ParseInit ==
    /\ respPre \in Preambles
    /\ respSegs \in SeqsUpTo(BlockPool, MaxSegs)
    /\ parsed = None
    /\ SrcIdle /\ CfgIdle /\ AppIdle /\ EnvIdle /\ RecipeIdle /\ SvcIdle /\ ModalIdle

Parse ==
    /\ parsed = None
    /\ parsed' = Some(ParseRecommendations(ResponseText))
    /\ UNCHANGED <<respPre, respSegs, srcVars, cfg, recipeCall, env, appVars, svc, modal>>

SpecParse == ParseInit /\ [][Parse]_vars

(***************************************************************************)
(* SpecSources: extractSources applied to every chunk list, and the list   *)
(* the SourceList component then renders.                                  *)
(***************************************************************************)
SrcInit ==
    /\ chunks \in SeqsUpTo(ChunkPool, MaxChunks)
    /\ extracted = None
    /\ shown = None
    /\ ParseIdle /\ CfgIdle /\ AppIdle /\ EnvIdle /\ RecipeIdle /\ SvcIdle /\ ModalIdle

Extract ==
    /\ extracted = None
    /\ extracted' = Some(ExtractSources(chunks))
    /\ UNCHANGED <<chunks, shown, parseVars, cfg, recipeCall, env, appVars, svc, modal>>

Display ==
    /\ IsSome(extracted)
    /\ shown = None
    /\ shown' = Some(SourceList(Val(extracted)))
    /\ UNCHANGED <<chunks, extracted, parseVars, cfg, recipeCall, env, appVars, svc, modal>>

SrcNext == Extract \/ Display

SpecSources == SrcInit /\ [][SrcNext]_vars

(***************************************************************************)
(* The Prompt Builder part of getFoodRecommendations.                      *)
(* A media type is [family, sub], standing for the string family/sub.      *)
(***************************************************************************)
Mime(family, sub) == [family |-> family, sub |-> sub]
StartsWith(mimeType, family) == mimeType.family = family

MimeTypes ==
    { Mime("image", "png"), Mime("text", "plain"), Mime("audio", "mpeg"),
      Mime("video", "mp4"), Mime("application", "pdf") }

Attachment(t) == Some([mimeType |-> t, base64Data |-> "DATA"])

\* promptText: which wording it is, the query put into it, and the suffix
\* appended when there is no attachment.
PromptText(m, query, att) ==
    LET wording == IF m = "restaurants" THEN "restaurants"
                   ELSE IF m = "search_agent" THEN "research" ELSE "standard"
        plain == [wording |-> wording, query |-> query, verify |-> "none"]
    IN  IF IsSome(att)
        THEN LET t == Val(att).mimeType
             IN  IF StartsWith(t, "image") THEN [plain EXCEPT !.wording = "analyze image"]
                 ELSE IF StartsWith(t, "text") THEN [plain EXCEPT !.wording = "analyze text"]
                 ELSE IF StartsWith(t, "audio") THEN [plain EXCEPT !.wording = "analyze audio"]
                 ELSE IF StartsWith(t, "video") THEN [plain EXCEPT !.wording = "analyze video"]
                 ELSE plain
        ELSE [plain EXCEPT !.verify = IF m = "restaurants" THEN "maps" ELSE "search"]

\* The argument of generateContent in getFoodRecommendations.
RecsRequest(m, query, att, resolved) ==
    [model |-> resolved.model,
     contents |-> (IF IsSome(att) THEN << [inlineData |-> Val(att)] >> ELSE <<>>)
                  \o << [text |-> PromptText(m, query, att)] >>,
     config |-> [tools |-> resolved.config.tools,
                 thinkingConfig |-> resolved.config.thinkingConfig,
                 systemInstruction |-> "item blocks",
                 toolConfig |-> resolved.toolConfig]]

(***************************************************************************)
(* generateFoodVideo and generateFoodImage.                                *)
(***************************************************************************)
API_KEY == "API_KEY"
MaxPolls == 3
VideoUris == {"https://veo/v1?alt=media"}

\* A job handle: its completion flag and response?.generatedVideos?.[0]?.video?.uri
Handles == [done : BOOLEAN, uri : {None} \cup {Some(u) : u \in VideoUris}]

\* Mutant of LoopContinues: the loop also goes on while no URI is present.
LoopContinuesUntilUri(operation) == ~operation.done \/ operation.uri = None

\* while (!operation.done)
LoopContinues(operation) == ~operation.done

PlayableUrl(uri) == uri \o "&key=" \o API_KEY

\* The parts of an image response: a text part, or inline data.
TextPart == [inlineData |-> None]
InlinePart(mimeType, data) == [inlineData |-> Some([mimeType |-> mimeType, data |-> data])]

ImageResponses ==
    { <<>>, <<TextPart>>, <<TextPart, InlinePart("image/png", "AAAA")>>,
      <<InlinePart("image/jpeg", "BBBB"), InlinePart("image/png", "AAAA")>> }

HasInline(parts) == \E i \in 1..Len(parts) : IsSome(parts[i].inlineData)

\* The data URL of the first part that holds inline data.
FirstInline(parts) ==
    LET i == CHOOSE k \in 1..Len(parts) :
                IsSome(parts[k].inlineData)
                /\ \A j \in 1..(k - 1) : parts[j].inlineData = None
        d == Val(parts[i].inlineData)
    IN  "data:" \o d.mimeType \o ";base64," \o d.data

(***************************************************************************)
(* Inputs of the session: queries, and what the backend answers.           *)
(***************************************************************************)
Queries == {"Spicy Ramen", ""}
Tags == {"Sushi"}
Sizes == {"1K", "2K", "4K"}
MaxAppBlocks == 1
AppAttachments == {None, Attachment(Mime("image", "png")), Attachment(Mime("application", "pdf"))}

AppBlocks ==
    { Blk(<<NL>>, <<SP, "a">>, <<SP, "b", NL>>, TRUE, TRUE, TRUE, <<NL>>),
      Blk(<<NL>>, <<SP, "a">>, <<SP, "b", NL>>, TRUE, TRUE, FALSE, <<>>) }

AppTexts == {RenderAll(bs) : bs \in SeqsUpTo(AppBlocks, MaxAppBlocks)} \cup { <<"a", SP, "b">> }

AppChunkLists == { <<>>, <<WebChunk("A", "x"), WebChunk("B", "x")>> }

(***************************************************************************)
(* Spec: the App session.  handleSearch runs from a UI event up to its     *)
(* first await; each later action is one awaited promise settling,         *)
(* followed by the code that runs up to the next await or the return.      *)
(***************************************************************************)
Settled(c) == calls[c].pc \in {"idle", "done", "failed"}

\* The invocations of handleSearch that have not returned yet.
InFlight == {c \in CallIds : ~Settled(c)}

\* The slot a new invocation of handleSearch takes.
FreeSlot(c) == Settled(c) /\ \A d \in CallIds : d < c => ~Settled(d)

GenErrMsg(m) == IF m = "video" THEN VideoErrMsg ELSE ImageErrMsg

\* An invocation that has returned: its arguments and locals are gone, what
\* is kept is the record of what it did.
Returned(cr, pc, result) ==
    [cr EXCEPT !.pc = pc, !.query = "", !.att = None, !.size = "1K",
               !.request = None, !.result = result]

\* Mutant of Fail: the catch block stores the message and leaves the flag set.
FailStaysLoading(c, cr, msg) ==
    /\ state' = [ErrorState(msg) EXCEPT !.isLoading = TRUE]
    /\ calls' = [calls EXCEPT ![c] = Returned(cr, "failed", None)]

\* A throw that reaches a catch block of handleSearch.
Fail(c, cr, msg) ==
    /\ state' = ErrorState(msg)
    /\ calls' = [calls EXCEPT ![c] = Returned(cr, "failed", None)]

\* Mutant of HandleSearch: the attachment check of the video and image
\* branches is skipped and the generation is started.
HandleSearchSubmitsFiles(c, query, att) ==
    LET cr == [IdleCall EXCEPT !.mode = mode, !.query = query, !.att = att,
                               !.size = imageSize]
    IN  IF mode \in {"video", "image"}
        THEN /\ state' = LoadingState(state)
             /\ calls' = [calls EXCEPT ![c] =
                   [cr EXCEPT !.pc = IF env.aistudio THEN "key"
                                     ELSE IF mode = "video" THEN "submit" ELSE "image"]]
        ELSE /\ state' = LoadingState(state)
             /\ calls' = [calls EXCEPT ![c] =
                   IF AsksLocation(mode) /\ env.geolocation
                   THEN [cr EXCEPT !.pc = "locating", !.geoAsked = TRUE]
                   ELSE [cr EXCEPT !.pc = "request",
                           !.request = Some(RecsRequest(mode, query, att,
                                                        GetModelConfig(mode, None)))]]

\* handleSearch(query, attachment) up to its first await (or its return).
HandleSearch(c, query, att) ==
    LET cr == [IdleCall EXCEPT !.mode = mode, !.query = query, !.att = att,
                               !.size = imageSize]
    IN  IF mode \in {"video", "image"}
        THEN IF IsSome(att)
             THEN Fail(c, cr, IF mode = "video" THEN VideoFileMsg ELSE ImageFileMsg)
             ELSE /\ state' = LoadingState(state)
                  /\ calls' = [calls EXCEPT ![c] =
                        [cr EXCEPT !.pc = IF env.aistudio THEN "key"
                                          ELSE IF mode = "video" THEN "submit" ELSE "image"]]
        ELSE /\ state' = LoadingState(state)
             /\ calls' = [calls EXCEPT ![c] =
                   IF AsksLocation(mode) /\ env.geolocation
                   THEN [cr EXCEPT !.pc = "locating", !.geoAsked = TRUE]
                   ELSE [cr EXCEPT !.pc = "request",
                           !.request = Some(RecsRequest(mode, query, att,
                                                        GetModelConfig(mode, None)))]]

\* Mutant of SubmitSearch: the input and the button stay enabled while loading.
SubmitSearchWhileLoading ==
    \E c \in CallIds, q \in Queries, att \in AppAttachments :
        /\ q # "" \/ IsSome(att)
        /\ FreeSlot(c)
        /\ HandleSearch(c, q, att)
        /\ UNCHANGED <<mode, imageSize, env, cfg, recipeCall, parseVars, srcVars, svc, modal>>

\* SearchBar: Enter in the input, or the Search button.
SubmitSearch ==
    \E c \in CallIds, q \in Queries, att \in AppAttachments :
        /\ ~state.isLoading
        /\ q # "" \/ IsSome(att)
        /\ FreeSlot(c)
        /\ HandleSearch(c, q, att)
        /\ UNCHANGED <<mode, imageSize, env, cfg, recipeCall, parseVars, srcVars, svc, modal>>

\* A suggested tag, rendered while nothing is shown and nothing is loading.
ClickTag ==
    \E c \in CallIds, tag \in Tags :
        /\ Len(state.results) = 0 /\ ~state.isLoading
        /\ state.videoUrl = None /\ state.imageUrl = None
        /\ FreeSlot(c)
        /\ HandleSearch(c, tag, None)
        /\ UNCHANGED <<mode, imageSize, env, cfg, recipeCall, parseVars, srcVars, svc, modal>>

\* A mode button: setMode(mode === m ? 'normal' : m)
ToggleMode ==
    \E m \in AppModes \ {"normal"} :
        /\ mode' = IF mode = m THEN "normal" ELSE m
        /\ UNCHANGED <<state, imageSize, calls, env, cfg, recipeCall, parseVars, srcVars, svc, modal>>

\* The size buttons, rendered in image mode.
SetImageSize ==
    \E sz \in Sizes :
        /\ mode = "image"
        /\ imageSize' = sz
        /\ UNCHANGED <<state, mode, calls, env, cfg, recipeCall, parseVars, srcVars, svc, modal>>

\* aistudio.hasSelectedApiKey() and, without a key, openSelectKey() settle.
KeyCheck ==
    \E c \in CallIds, outcome \in {"has key", "selected", "rejected"} :
        /\ calls[c].pc = "key"
        /\ IF outcome = "rejected"
           THEN Fail(c, calls[c], GenErrMsg(calls[c].mode))
           ELSE /\ calls' = [calls EXCEPT ![c].pc =
                                IF calls[c].mode = "video" THEN "submit" ELSE "image"]
                /\ UNCHANGED state
        /\ UNCHANGED <<mode, imageSize, env, cfg, recipeCall, parseVars, srcVars, svc, modal>>

\* Mutant of OnHandle: the loop gives up after two handles that are not done.
OnHandleGivesUp(c, cr, handle) ==
    LET cr2 == [cr EXCEPT !.op = Some(handle),
                          !.notDone = IF handle.done THEN @ ELSE @ + 1]
    IN  /\ handle.done \/ cr.notDone < MaxPolls
        /\ IF LoopContinues(handle) /\ cr.notDone < 2
           THEN /\ calls' = [calls EXCEPT ![c] = [cr2 EXCEPT !.pc = "wait"]]
                /\ UNCHANGED state
           ELSE IF handle.uri = None
                THEN Fail(c, cr2, VideoErrMsg)
                ELSE /\ state' = VideoState(PlayableUrl(Val(handle.uri)))
                     /\ calls' = [calls EXCEPT ![c] =
                           Returned(cr2, "done", Some(PlayableUrl(Val(handle.uri))))]

\* generateFoodVideo from a job handle the backend returned to the end of
\* the loop iteration or of the function, and on into handleSearch.
OnHandle(c, cr, handle) ==
    LET cr2 == [cr EXCEPT !.op = Some(handle),
                          !.notDone = IF handle.done THEN @ ELSE @ + 1]
    IN  /\ handle.done \/ cr.notDone < MaxPolls
        /\ IF LoopContinues(handle)
           THEN /\ calls' = [calls EXCEPT ![c] = [cr2 EXCEPT !.pc = "wait"]]
                /\ UNCHANGED state
           ELSE IF handle.uri = None
                THEN Fail(c, cr2, VideoErrMsg)
                ELSE /\ state' = VideoState(PlayableUrl(Val(handle.uri)))
                     /\ calls' = [calls EXCEPT ![c] =
                           Returned(cr2, "done", Some(PlayableUrl(Val(handle.uri))))]

\* generateVideos settles.
VideoSubmit ==
    \E c \in CallIds :
        /\ calls[c].pc = "submit"
        /\ \/ Fail(c, calls[c], VideoErrMsg)
           \/ \E handle \in Handles : OnHandle(c, calls[c], handle)
        /\ UNCHANGED <<mode, imageSize, env, cfg, recipeCall, parseVars, srcVars, svc, modal>>

\* The 5 second timer of the loop fires; getVideosOperation is called.
VideoWait ==
    \E c \in CallIds :
        /\ calls[c].pc = "wait"
        /\ calls' = [calls EXCEPT ![c].pc = "refresh", ![c].waits = @ + 1]
        /\ UNCHANGED <<state, mode, imageSize, env, cfg, recipeCall, parseVars, srcVars, svc, modal>>

\* getVideosOperation settles.
VideoRefresh ==
    \E c \in CallIds :
        /\ calls[c].pc = "refresh"
        /\ LET cr == [calls[c] EXCEPT !.refreshes = @ + 1]
           IN  \/ Fail(c, cr, VideoErrMsg)
               \/ \E handle \in Handles : OnHandle(c, cr, handle)
        /\ UNCHANGED <<mode, imageSize, env, cfg, recipeCall, parseVars, srcVars, svc, modal>>

\* Mutant of OnImage: a response without inline data gives an empty data URL.
OnImageEmptyReference(c, cr, parts) ==
    LET url == IF HasInline(parts) THEN FirstInline(parts) ELSE "data:;base64,"
    IN  /\ state' = ImageState(url)
        /\ calls' = [calls EXCEPT ![c] = Returned(cr, "done", Some(url))]

\* generateFoodImage from the response the backend returned to its end, and
\* on into handleSearch.
OnImage(c, cr, parts) ==
    IF HasInline(parts)
    THEN /\ state' = ImageState(FirstInline(parts))
         /\ calls' = [calls EXCEPT ![c] = Returned(cr, "done", Some(FirstInline(parts)))]
    ELSE Fail(c, cr, ImageErrMsg)

\* generateContent of generateFoodImage settles.
ImageRespond ==
    \E c \in CallIds :
        /\ calls[c].pc = "image"
        /\ \/ Fail(c, calls[c], ImageErrMsg)
           \/ \E parts \in ImageResponses : OnImage(c, calls[c], parts)
        /\ UNCHANGED <<mode, imageSize, env, cfg, recipeCall, parseVars, srcVars, svc, modal>>

\* getCurrentPosition calls back; getFoodRecommendations builds its request.
Locate ==
    \E c \in CallIds, location \in Locations :
        /\ calls[c].pc = "locating"
        /\ calls' = [calls EXCEPT ![c].pc = "request",
                        ![c].request =
                            Some(RecsRequest(calls[c].mode, calls[c].query, calls[c].att,
                                             GetModelConfig(calls[c].mode, location)))]
        /\ UNCHANGED <<state, mode, imageSize, env, cfg, recipeCall, parseVars, srcVars, svc, modal>>

\* Mutant of RecsData: every item is given the sources of the response.
RecsDataSourcesPerItem(text, groundingChunks) ==
    LET items == ParseRecommendations(text)
    IN  [recommendations |->
            [i \in 1..Len(items) |->
                [items[i] EXCEPT !.sources = ExtractSources(groundingChunks)]],
         rawText |-> text,
         allSources |-> ExtractSources(groundingChunks)]

\* What getFoodRecommendations returns for a response.
RecsData(text, groundingChunks) ==
    [recommendations |-> ParseRecommendations(text),
     rawText |-> text,
     allSources |-> ExtractSources(groundingChunks)]

\* generateContent of getFoodRecommendations settles.
RecsRespond ==
    \E c \in CallIds :
        /\ calls[c].pc = "request"
        /\ \/ Fail(c, calls[c], RecsErrMsg)
           \/ \E text \in AppTexts, groundingChunks \in AppChunkLists :
                 /\ state' = RecsState(RecsData(text, groundingChunks))
                 /\ calls' = [calls EXCEPT ![c] =
                       Returned(calls[c], "done", Some(RecsData(text, groundingChunks)))]
        /\ UNCHANGED <<mode, imageSize, env, cfg, recipeCall, parseVars, srcVars, svc, modal>>

Init ==
    AppIdle /\ env \in Envs /\ CfgIdle /\ ParseIdle /\ SrcIdle /\ RecipeIdle /\ SvcIdle /\ ModalIdle

Next ==
    \/ SubmitSearch \/ ClickTag \/ ToggleMode \/ SetImageSize
    \/ KeyCheck \/ VideoSubmit \/ VideoWait \/ VideoRefresh
    \/ ImageRespond \/ Locate \/ RecsRespond

Spec == Init /\ [][Next]_vars

(***************************************************************************)
(* SpecLive: the session with every awaited promise settling.  The host's  *)
(* key dialog, the geolocation callback (it has a 5 second timeout), the   *)
(* backend calls and the loop's timer are each taken once they are         *)
(* pending; a video job reports completion within MaxPolls handles.        *)
(***************************************************************************)
Settle ==
    /\ UNCHANGED <<mode, imageSize>>
    /\ \/ KeyCheck \/ Locate \/ RecsRespond \/ ImageRespond
       \/ VideoSubmit \/ VideoWait \/ VideoRefresh


\* The host offers both the geolocation provider and the key dialog, so
\* that every await of handleSearch is on the way.
LiveInit == Init /\ env.geolocation /\ env.aistudio

\* The image size stays as it is: no await depends on it.
LiveNext == SubmitSearch \/ ClickTag \/ ToggleMode \/ Settle

SpecLive == LiveInit /\ [][LiveNext]_vars /\ WF_vars(Settle)

(***************************************************************************)
(* SpecRace: handleSearch called twice, the second call possibly while the *)
(* first is still in flight (the page itself never does this).             *)
(***************************************************************************)
Racers == {1, 2}

\* handleSearch(query, attachment) called directly.
RaceSearch ==
    \E c \in Racers, q \in Queries, att \in AppAttachments :
        /\ calls[c].pc = "idle"
        /\ FreeSlot(c)
        /\ HandleSearch(c, q, att)
        /\ UNCHANGED <<mode, imageSize, env, cfg, recipeCall, parseVars, srcVars, svc, modal>>

\* A mode button pressed before the second call is made.
RaceToggle == calls[2].pc = "idle" /\ ToggleMode

RaceNext ==
    \/ RaceSearch \/ RaceToggle
    \/ KeyCheck \/ VideoSubmit \/ VideoWait \/ VideoRefresh
    \/ ImageRespond \/ Locate \/ RecsRespond

SpecRace == LiveInit /\ [][RaceNext]_vars

(***************************************************************************)
(* SpecRecipe: getDishRecipe from its request on, answered with every      *)
(* recipe text.  A text is described by its parts: the two scalar lines    *)
(* and the two blocks, each block absent, closed or left open.             *)
(***************************************************************************)
MaxLines == 2
RecipeDishes == {"Ramen"}

PrepParts == { <<>>, <<PREP_TIME, SP, "a", SP, NL>>, <<PREP_TIME, NL>> }
ServParts == { <<>>, <<SERVINGS, SP, "b", NL>> }

IngLines ==
    { <<DASH, SP, "a">>, <<STAR, SP, "b">>, <<"1", DOT, SP, "a">>, <<SP, DASH, "b", SP>>,
      <<DASH, SP, STAR, "a">>, <<SP>> }
InsLines == { <<"1", DOT, SP, "a">>, <<SP, "1", "2", DOT, "b">>, <<DASH, SP, "a">> }

RecipeBlock(kind, lines) == [kind |-> kind, lines |-> lines]

BlocksOf(Lines, openLine) ==
    { RecipeBlock("absent", <<>>), RecipeBlock("open", <<openLine>>) }
    \cup { RecipeBlock("closed", ls) : ls \in SeqsUpTo(Lines, MaxLines) }

RECURSIVE JoinLines(_)
JoinLines(lines) ==
    IF lines = <<>> THEN <<>> ELSE Head(lines) \o <<NL>> \o JoinLines(Tail(lines))

RenderBlock(b, start, end) ==
    IF b.kind = "absent" THEN <<>>
    ELSE <<start, NL>> \o JoinLines(b.lines)
         \o (IF b.kind = "closed" THEN <<end, NL>> ELSE <<>>)

NoRecipeText ==
    [hasText |-> FALSE, prep |-> <<>>, serv |-> <<>>,
     ing |-> RecipeBlock("absent", <<>>), ins |-> RecipeBlock("absent", <<>>)]

RecipeInputs ==
    { NoRecipeText }
    \cup { [hasText |-> TRUE, prep |-> p, serv |-> s, ing |-> i, ins |-> j] :
             p \in PrepParts, s \in ServParts,
             i \in BlocksOf(IngLines, <<DASH, SP, "a">>),
             j \in BlocksOf(InsLines, <<"1", DOT, SP, "b">>) }

\* response.text of the response described by an input
RecipeText(input) ==
    IF ~input.hasText THEN None
    ELSE Some(input.prep \o input.serv
              \o RenderBlock(input.ing, INGREDIENTS_START, INGREDIENTS_END)
              \o RenderBlock(input.ins, INSTRUCTIONS_START, INSTRUCTIONS_END))

RecipeChunkLists == { <<>>, <<WebChunk("A", "x")>> }

\* getDishRecipe is called and, its configuration resolved, sends its request.
CallRecipe ==
    \E d \in RecipeDishes :
        /\ recipeCall.pc \in {"idle", "returned", "thrown"}
        /\ recipeCall' = [pc |-> "request", dishName |-> d, input |-> None,
                          chunks |-> <<>>, out |-> None]
        /\ UNCHANGED <<parseVars, srcVars, cfg, env, appVars, svc, modal>>

\* generateContent settles with a response; the text is parsed and returned.
RecipeRespond ==
    /\ recipeCall.pc = "request"
    /\ \E input \in RecipeInputs, groundingChunks \in RecipeChunkLists :
          recipeCall' = [recipeCall EXCEPT
                            !.pc = "returned", !.input = Some(input),
                            !.chunks = groundingChunks,
                            !.out = Some(ParseRecipe(recipeCall.dishName,
                                                     RecipeText(input), groundingChunks))]
    /\ UNCHANGED <<parseVars, srcVars, cfg, env, appVars, svc, modal>>

\* generateContent rejects; the catch block logs and rethrows.
RecipeThrow ==
    /\ recipeCall.pc = "request"
    /\ recipeCall' = [recipeCall EXCEPT !.pc = "thrown"]
    /\ UNCHANGED <<parseVars, srcVars, cfg, env, appVars, svc, modal>>

RecipeInit ==
    RecipeIdle /\ ParseIdle /\ SrcIdle /\ CfgIdle /\ AppIdle /\ EnvIdle /\ SvcIdle /\ ModalIdle

RecipeNext == CallRecipe \/ RecipeRespond \/ RecipeThrow

SpecRecipe == RecipeInit /\ [][RecipeNext]_vars

(***************************************************************************)
(* SpecServices: getFoodRecommendations and getDishRecipe called directly, *)
(* with every mode value and every media type, answered or rejected by the *)
(* backend.  sent counts the calls of generateContent the call has made.   *)
(***************************************************************************)
SvcAttachments == {None} \cup {Attachment(t) : t \in MimeTypes}

\* What getCurrentPosition does: a position, or one of its three errors.
GeoErrors == {"denied", "unavailable", "timeout"}
GeoOutcomes == {"position"} \cup GeoErrors

SvcRecipeInputs ==
    { NoRecipeText,
      [hasText |-> TRUE, prep |-> <<PREP_TIME, SP, "a", SP, NL>>, serv |-> <<>>,
       ing |-> RecipeBlock("closed", << <<DASH, SP, "a">> >>),
       ins |-> RecipeBlock("open", << <<"1", DOT, SP, "b">> >>)] }

\* The mode getModelConfig is called with.
SvcResolverMode(s) == IF s.fn = "getDishRecipe" THEN EffectiveMode(s.mode) ELSE s.mode

\* The request the call builds once getModelConfig has resolved.
SvcRequest(s, location) ==
    IF s.fn = "getDishRecipe"
    THEN RecipeRequest(s.dishName, GetModelConfig(SvcResolverMode(s), location))
    ELSE RecsRequest(s.mode, s.query, s.att, GetModelConfig(s.mode, location))

\* getModelConfig has resolved: the request is built and generateContent called.
SvcSend(s, location) ==
    [s EXCEPT !.pc = "request", !.location = location, !.sent = @ + 1,
              !.request = Some(SvcRequest(s, location))]

\* A call up to its first suspension that is not already resolved:
\* getCurrentLocation returns undefined at once without a provider.
SvcEnter(fn, m, q, att, d) ==
    LET s == [fn |-> fn, pc |-> "idle", mode |-> m, query |-> q, att |-> att,
              dishName |-> d, geoAsked |-> FALSE, outcome |-> "none", location |-> None,
              sent |-> 0, request |-> None, out |-> None]
    IN  /\ svc.pc \in {"idle", "returned", "thrown"}
        /\ svc' = IF AsksLocation(SvcResolverMode(s))
                  THEN IF env.geolocation
                       THEN [s EXCEPT !.pc = "locating", !.geoAsked = TRUE]
                       ELSE SvcSend([s EXCEPT !.outcome = "absent"], None)
                  ELSE SvcSend(s, None)
        /\ UNCHANGED <<parseVars, srcVars, cfg, env, appVars, recipeCall, modal>>

SvcCallRecs ==
    \E m \in ModeValues, q \in Queries, att \in SvcAttachments :
        SvcEnter("getFoodRecommendations", m, q, att, "")

SvcCallRecipe ==
    \E m \in ModeValues, d \in RecipeDishes : SvcEnter("getDishRecipe", m, "", None, d)

\* Mutant of SvcLocate: an error of the provider rejects the call.
SvcLocateRejects ==
    /\ svc.pc = "locating"
    /\ \E o \in GeoOutcomes, c \in Coords :
          svc' = IF o = "position" THEN SvcSend([svc EXCEPT !.outcome = o], Some(c))
                 ELSE [svc EXCEPT !.outcome = o, !.pc = "thrown"]
    /\ UNCHANGED <<parseVars, srcVars, cfg, env, appVars, recipeCall, modal>>

\* getCurrentPosition calls back; both callbacks resolve the promise.
SvcLocate ==
    /\ svc.pc = "locating"
    /\ \E o \in GeoOutcomes, c \in Coords :
          svc' = SvcSend([svc EXCEPT !.outcome = o], IF o = "position" THEN Some(c) ELSE None)
    /\ UNCHANGED <<parseVars, srcVars, cfg, env, appVars, recipeCall, modal>>

\* generateContent of getFoodRecommendations resolves; the text is parsed.
SvcRecsRespond ==
    /\ svc.pc = "request" /\ svc.fn = "getFoodRecommendations"
    /\ \E text \in AppTexts, groundingChunks \in AppChunkLists :
          svc' = [svc EXCEPT !.pc = "returned",
                             !.out = Some(RecsData(text, groundingChunks))]
    /\ UNCHANGED <<parseVars, srcVars, cfg, env, appVars, recipeCall, modal>>

\* generateContent of getDishRecipe resolves; the text is parsed.
SvcRecipeRespond ==
    /\ svc.pc = "request" /\ svc.fn = "getDishRecipe"
    /\ \E input \in SvcRecipeInputs, groundingChunks \in RecipeChunkLists :
          svc' = [svc EXCEPT !.pc = "returned",
                             !.out = Some(ParseRecipe(svc.dishName, RecipeText(input),
                                                      groundingChunks))]
    /\ UNCHANGED <<parseVars, srcVars, cfg, env, appVars, recipeCall, modal>>

\* Mutant of SvcReject: the request is sent once more after a failure.
SvcRejectRetries ==
    /\ svc.pc = "request" /\ svc.sent < 2
    /\ svc' = [svc EXCEPT !.sent = @ + 1]
    /\ UNCHANGED <<parseVars, srcVars, cfg, env, appVars, recipeCall, modal>>

\* generateContent rejects: the catch block logs the error and rethrows it.
SvcReject ==
    /\ svc.pc = "request"
    /\ svc' = [svc EXCEPT !.pc = "thrown"]
    /\ UNCHANGED <<parseVars, srcVars, cfg, env, appVars, recipeCall, modal>>

SvcInit ==
    /\ SvcIdle /\ env \in Envs
    /\ ParseIdle /\ SrcIdle /\ CfgIdle /\ AppIdle /\ RecipeIdle /\ ModalIdle

SvcNext ==
    \/ SvcCallRecs \/ SvcCallRecipe \/ SvcLocate
    \/ SvcRecsRespond \/ SvcRecipeRespond \/ SvcReject

SpecServices == SvcInit /\ [][SvcNext]_vars

(***************************************************************************)
(* SpecModal: the RecipeModal component.  App mounts it when a dish is     *)
(* selected and unmounts it on close.  loads and retries count the pending *)
(* promises of getDishRecipe; pending counts the pending promises of       *)
(* navigator.wakeLock.request made by the mounted instance, stalePending   *)
(* those of instances already unmounted.  ref is wakeLockRef.current: null,*)
(* a sentinel that holds the lock (live) or one already released (stale);  *)
(* orphans counts the sentinels that hold the lock and that no mounted     *)
(* instance refers to; releaseFailed records that a release() of a live    *)
(* sentinel was rejected since the tab was last hidden.                    *)
(***************************************************************************)
MaxRetries == 2
MaxLocks == 2

LoadErrMsg == "Could not load recipe. Please try again."

\* The recipe texts the backend answers with: no text, one instruction, two.
ModalRecipeInputs ==
    { NoRecipeText,
      [NoRecipeText EXCEPT !.hasText = TRUE,
                           !.ins = RecipeBlock("open", << <<"1", DOT, SP, "b">> >>)],
      [NoRecipeText EXCEPT !.hasText = TRUE,
                           !.ins = RecipeBlock("closed", << <<"1", DOT, SP, "a">>,
                                                            <<DASH, SP, "a">> >>)] }

ModalRecipes ==
    { ParseRecipe(d, RecipeText(input), <<>>) : d \in RecipeDishes, input \in ModalRecipeInputs }

\* if (isCookMode && recipe) the cook mode UI is rendered, else the standard one
CookModeShown(m) == m.isCookMode /\ IsSome(m.recipe)

\* The browser holds a screen wake lock for the page.
LockHeld(m) == m.ref = "live" \/ m.orphans > 0

\* releaseWakeLock: nothing without a sentinel; else release() resolves and
\* the reference is cleared, or it rejects and the catch block leaves it.
ReleaseWakeLock(m) ==
    IF m.ref = "null" THEN {m}
    ELSE {[m EXCEPT !.ref = "null"], [m EXCEPT !.releaseFailed = (m.ref = "live")]}

\* requestWakeLock: the request is made if the API exists.
RequestWakeLock(m) == IF m.api THEN [m EXCEPT !.pending = @ + 1] ELSE m

\* A dish card is clicked: the modal mounts and its effect starts the fetch.
OpenModal ==
    /\ ~modal.open /\ modal.visible
    /\ \E d \in RecipeDishes :
          modal' = [modal EXCEPT !.open = TRUE, !.item = d, !.loading = TRUE, !.loads = 1]
    /\ UNCHANGED <<parseVars, srcVars, cfg, env, appVars, recipeCall, svc>>

\* getDishRecipe of the effect resolves.
LoadOk ==
    /\ modal.open /\ modal.loads = 1
    /\ \E r \in ModalRecipes :
          modal' = [modal EXCEPT !.recipe = Some(r), !.loading = FALSE, !.loads = 0]
    /\ UNCHANGED <<parseVars, srcVars, cfg, env, appVars, recipeCall, svc>>

\* getDishRecipe of the effect rejects.
LoadFail ==
    /\ modal.open /\ modal.loads = 1
    /\ modal' = [modal EXCEPT !.error = Some(LoadErrMsg), !.loading = FALSE, !.loads = 0]
    /\ UNCHANGED <<parseVars, srcVars, cfg, env, appVars, recipeCall, svc>>

\* The Retry button of the error block: getDishRecipe(...).then(setRecipe)
Retry ==
    /\ modal.open /\ modal.visible
    /\ ~CookModeShown(modal)
    /\ IsSome(modal.error)
    /\ modal.retries < MaxRetries
    /\ modal' = [modal EXCEPT !.retries = @ + 1]
    /\ UNCHANGED <<parseVars, srcVars, cfg, env, appVars, recipeCall, svc>>

\* A retry resolves: setRecipe, and nothing else.
RetryOk ==
    /\ modal.open /\ modal.retries > 0
    /\ \E r \in ModalRecipes :
          modal' = [modal EXCEPT !.recipe = Some(r), !.retries = @ - 1]
    /\ UNCHANGED <<parseVars, srcVars, cfg, env, appVars, recipeCall, svc>>

\* A retry rejects: the promise has no catch, the state is not touched.
RetryFail ==
    /\ modal.open /\ modal.retries > 0
    /\ modal' = [modal EXCEPT !.retries = @ - 1]
    /\ UNCHANGED <<parseVars, srcVars, cfg, env, appVars, recipeCall, svc>>

\* toggleCookMode and the wake lock effect that follows the render: the
\* cleanup of the previous effect releases, then the effect requests the
\* lock (cook mode on) or releases again (off).
ToggleCookMode ==
    /\ modal.open /\ modal.visible
    /\ IsSome(modal.recipe)
    /\ modal.isCookMode \/ ~modal.loading
    /\ modal.isCookMode \/ modal.pending < MaxLocks
    /\ \E m1 \in ReleaseWakeLock([modal EXCEPT !.isCookMode = ~modal.isCookMode]) :
          IF m1.isCookMode
          THEN modal' = RequestWakeLock(m1)
          ELSE modal' \in ReleaseWakeLock(m1)
    /\ UNCHANGED <<parseVars, srcVars, cfg, env, appVars, recipeCall, svc>>

\* nextStep, from the button of the cook mode UI
NextStep ==
    /\ modal.open /\ modal.visible
    /\ CookModeShown(modal)
    /\ modal.currentStep # Len(Val(modal.recipe).instructions) - 1
    /\ modal' = IF modal.currentStep < Len(Val(modal.recipe).instructions) - 1
                THEN [modal EXCEPT !.currentStep = @ + 1]
                ELSE modal
    /\ UNCHANGED <<parseVars, srcVars, cfg, env, appVars, recipeCall, svc>>

\* prevStep, from the button of the cook mode UI
PrevStep ==
    /\ modal.open /\ modal.visible
    /\ CookModeShown(modal)
    /\ modal.currentStep # 0
    /\ modal' = IF modal.currentStep > 0 THEN [modal EXCEPT !.currentStep = @ - 1] ELSE modal
    /\ UNCHANGED <<parseVars, srcVars, cfg, env, appVars, recipeCall, svc>>

\* The tab is hidden: the browser releases every wake lock of the page.
HideTab ==
    /\ modal.visible
    /\ modal' = [modal EXCEPT !.visible = FALSE, !.orphans = 0, !.releaseFailed = FALSE,
                              !.ref = IF @ = "live" THEN "stale" ELSE @]
    /\ UNCHANGED <<parseVars, srcVars, cfg, env, appVars, recipeCall, svc>>

\* The tab is shown again: handleVisibilityChange requests the lock in cook mode.
ShowTab ==
    /\ ~modal.visible
    /\ modal.pending < MaxLocks
    /\ modal' = IF modal.open /\ modal.isCookMode
                THEN RequestWakeLock([modal EXCEPT !.visible = TRUE])
                ELSE [modal EXCEPT !.visible = TRUE]
    /\ UNCHANGED <<parseVars, srcVars, cfg, env, appVars, recipeCall, svc>>

\* wakeLock.request resolves: the sentinel is stored in wakeLockRef.current,
\* over whatever the reference held.
LockGranted ==
    /\ modal.pending > 0 /\ modal.visible
    /\ modal.ref = "live" => modal.orphans < MaxLocks
    /\ modal' = [modal EXCEPT !.pending = @ - 1, !.ref = "live",
                              !.orphans = IF modal.ref = "live" THEN @ + 1 ELSE @]
    /\ UNCHANGED <<parseVars, srcVars, cfg, env, appVars, recipeCall, svc>>

\* wakeLock.request rejects: the catch block warns.
LockDenied ==
    /\ modal.pending > 0
    /\ modal' = [modal EXCEPT !.pending = @ - 1]
    /\ UNCHANGED <<parseVars, srcVars, cfg, env, appVars, recipeCall, svc>>

\* A request of an unmounted instance settles: granted, its sentinel goes
\* into a reference nobody reads any more.
StaleSettles ==
    /\ modal.stalePending > 0
    /\ \/ /\ modal.visible /\ modal.orphans < MaxLocks
          /\ modal' = [modal EXCEPT !.stalePending = @ - 1, !.orphans = @ + 1]
       \/ modal' = [modal EXCEPT !.stalePending = @ - 1]
    /\ UNCHANGED <<parseVars, srcVars, cfg, env, appVars, recipeCall, svc>>

\* The close button of the standard UI: App unmounts the modal, the cleanup
\* of the wake lock effect releases, the pending promises are left behind.
CloseModal ==
    /\ modal.open /\ modal.visible
    /\ ~CookModeShown(modal)
    /\ \E m1 \in ReleaseWakeLock(modal) :
          /\ m1.ref = "live" => m1.orphans < MaxLocks
          /\ m1.stalePending + m1.pending <= MaxLocks
          /\ modal' = [ClosedModal EXCEPT
                          !.api = m1.api, !.releaseFailed = m1.releaseFailed,
                          !.orphans = m1.orphans + (IF m1.ref = "live" THEN 1 ELSE 0),
                          !.stalePending = m1.stalePending + m1.pending]
    /\ UNCHANGED <<parseVars, srcVars, cfg, env, appVars, recipeCall, svc>>

\* The browser has the Screen Wake Lock API (api) or not.
ModalInit ==
    /\ modal \in {[ClosedModal EXCEPT !.api = a] : a \in BOOLEAN}
    /\ ParseIdle /\ SrcIdle /\ CfgIdle /\ AppIdle /\ EnvIdle /\ RecipeIdle /\ SvcIdle

ModalNext ==
    \/ OpenModal \/ LoadOk \/ LoadFail \/ Retry \/ RetryOk \/ RetryFail
    \/ ToggleCookMode \/ NextStep \/ PrevStep
    \/ HideTab \/ ShowTab \/ LockGranted \/ LockDenied \/ StaleSettles
    \/ CloseModal

SpecModal == ModalInit /\ [][ModalNext]_vars

(***************************************************************************)
(* Claims about the recommendation parser (SpecParse).                     *)
(***************************************************************************)
ThreeWellFormed ==
    /\ IsSome(parsed)
    /\ respPre = <<>>
    /\ Len(respSegs) = 3
    /\ \A i \in 1..3 : respSegs[i] \in GoodBlocks

ItemsMatchBlocks(ids) ==
    LET items == Val(parsed)
    IN  /\ Len(items) = 3
        /\ \A i \in 1..3 :
              /\ items[i].id = ids[i]
              /\ items[i].title = Trim(respSegs[i].name)
              /\ items[i].description = Trim(respSegs[i].desc)

\* C1 as stated: a text of exactly 3 well-formed blocks parses to exactly 3
\* items, in block order, with identifiers rec-0, rec-1, rec-2 and with title
\* and description equal to the trimmed block contents.
C1_Original == ThreeWellFormed => ItemsMatchBlocks(<<"rec-0", "rec-1", "rec-2">>)

\* C1 amended: a text of exactly 3 well-formed blocks parses to exactly 3
\* items, in block order, with identifiers rec-1, rec-2, rec-3 (the index of
\* the block's segment in the split on the start marker, whose segment 0 is
\* the text before the first marker) and with title and description equal
\* to the trimmed block contents.
C1_ThreeBlocks == ThreeWellFormed => ItemsMatchBlocks(<<"rec-1", "rec-2", "rec-3">>)

C1_Witness ==
    /\ ThreeWellFormed
    /\ Len(Val(parsed)) = 3
    /\ respSegs[1] # respSegs[2]
    /\ respSegs[3].name = <<"a", SP, "b", SP>>
    /\ Val(parsed)[3].title = <<"a", SP, "b">>

(***************************************************************************)
(* Claims about grounding sources (SpecSources).                           *)
(***************************************************************************)
DistinctUris(list) ==
    \A i, j \in 1..Len(list) : list[i].uri = list[j].uri => i = j

UriSet(list) == {list[i].uri : i \in 1..Len(list)}

FirstWith(list, u) ==
    CHOOSE i \in 1..Len(list) : list[i].uri = u /\ \A j \in 1..(i - 1) : list[j].uri # u

LastWith(list, u) ==
    CHOOSE i \in 1..Len(list) :
        list[i].uri = u /\ \A j \in (i + 1)..Len(list) : list[j].uri # u

\* One entry per distinct URI of src, in order of first occurrence.
OnePerUriInOrder(src, out) ==
    /\ DistinctUris(out)
    /\ UriSet(out) = UriSet(src)
    /\ \A i, j \in 1..Len(out) :
          i < j => FirstWith(src, out[i].uri) < FirstWith(src, out[j].uri)

ExampleChunks == <<WebChunk("A", "x"), WebChunk("B", "x"), WebChunk("C", "y")>>

\* C2 as stated: the deduplicated list has one entry per distinct URI, in
\* order of first occurrence, and the entry kept for a URI is the first one
\* carrying it; (A,x),(B,x),(C,y) give exactly [(A,x),(C,y)].
C2_Original ==
    IsSome(shown) =>
        LET src == Val(extracted)
            out == Val(shown)
        IN  /\ OnePerUriInOrder(src, out)
            /\ \A i \in 1..Len(out) : out[i] = src[FirstWith(src, out[i].uri)]
            /\ (chunks = ExampleChunks =>
                  out = << [title |-> "A", uri |-> "x"], [title |-> "C", uri |-> "y"] >>)

\* C2 amended: the deduplicated list has one entry per distinct URI, in
\* order of first occurrence of the URI, and the entry kept for a URI is the
\* LAST one carrying it (its title wins); (A,x),(B,x),(C,y) give exactly
\* [(B,x),(C,y)].
C2_LastTitleWins ==
    IsSome(shown) =>
        LET src == Val(extracted)
            out == Val(shown)
        IN  /\ OnePerUriInOrder(src, out)
            /\ \A i \in 1..Len(out) : out[i] = src[LastWith(src, out[i].uri)]
            /\ (chunks = ExampleChunks =>
                  out = << [title |-> "B", uri |-> "x"], [title |-> "C", uri |-> "y"] >>)

C2_Witness ==
    /\ chunks = ExampleChunks
    /\ IsSome(shown)
    /\ Len(Val(shown)) = 2

\* The number of sources with a usable URI that a chunk carries.
UsableIn(chunk) ==
    (IF IsSome(chunk.web) /\ Val(chunk.web).uri \notin {"", "#"} THEN 1 ELSE 0)
    + (IF IsSome(chunk.maps) /\ Val(chunk.maps).uri \notin {"", "#"} THEN 1 ELSE 0)

RECURSIVE UsableCount(_)
UsableCount(cs) == IF cs = <<>> THEN 0 ELSE UsableIn(Head(cs)) + UsableCount(Tail(cs))

\* C3 as stated: the source list a service returns is already deduplicated,
\* no two of its entries have the same URI.
C3_Original == IsSome(extracted) => DistinctUris(Val(extracted))

\* C3 amended: the source list a service returns is not deduplicated: it
\* holds one entry per source with a usable URI that the chunks carry (two
\* chunks sharing one URI yield 2 entries); the list the SourceList component
\* renders from it is deduplicated, no two of its entries have the same URI
\* and every returned URI is rendered.
C3_DedupOnDisplay ==
    /\ IsSome(extracted) => Len(Val(extracted)) = UsableCount(chunks)
    /\ IsSome(shown) =>
          /\ DistinctUris(Val(shown))
          /\ UriSet(Val(shown)) = UriSet(Val(extracted))

C3_Witness ==
    /\ chunks = <<WebChunk("A", "x"), WebChunk("B", "x")>>
    /\ IsSome(shown)
    /\ Len(Val(extracted)) = 2
    /\ Len(Val(shown)) = 1

(***************************************************************************)
(* Claims about the video poll loop and the session state (Spec).          *)
(***************************************************************************)
\* C4: a video call whose job handles reported not-done n times and then
\* done with a media URI has made exactly n status-refresh calls, one wait
\* before each (none when the submitted handle is already done), and
\* returns that URI followed by the credential suffix.
C4_PollsOncePerNotDone ==
    \A c \in CallIds :
        LET cr == calls[c]
        IN  /\ (cr.mode = "video" /\ cr.pc = "done") =>
                  /\ cr.refreshes = cr.notDone
                  /\ cr.waits = cr.notDone
                  /\ Val(cr.op).done
                  /\ IsSome(Val(cr.op).uri)
                  /\ cr.result = Some(Val(Val(cr.op).uri) \o "&key=" \o API_KEY)
            /\ cr.pc = "wait" => (cr.waits = cr.refreshes /\ cr.notDone = cr.refreshes + 1)
            /\ cr.pc = "refresh" => (cr.waits = cr.refreshes + 1 /\ cr.notDone = cr.waits)

C4_Witness ==
    \E c \in CallIds :
        /\ calls[c].mode = "video"
        /\ calls[c].pc = "done"
        /\ calls[c].notDone = 2
        /\ calls[c].refreshes = 2
        /\ state.videoUrl = Some("https://veo/v1?alt=media&key=API_KEY")

Populated ==
    {f \in {"results", "videoUrl", "imageUrl", "error"} :
        IF f = "results" THEN Len(state.results) > 0 ELSE IsSome(state[f])}

\* C5: whenever nothing is loading, at most one of {recommendation list
\* non-empty, video reference set, image reference set, error set} holds.
C5_AtMostOnePopulated == ~state.isLoading => Cardinality(Populated) <= 1

C5_Witness ==
    /\ ~state.isLoading
    /\ Populated = {"imageUrl"}
    /\ \E c \in CallIds : calls[c].pc = "done" /\ calls[c].mode = "image"

NoSources == state.allSources = None \/ state.allSources = Some(<<>>)

\* C6: after a failed search the loading flag is false, the error message is
\* set and every other result field is empty.
C6_FailureLeavesOnlyError ==
    (\E c \in CallIds : calls[c].pc = "failed") =>
        /\ ~state.isLoading
        /\ IsSome(state.error)
        /\ state.results = <<>>
        /\ state.rawText = None
        /\ NoSources
        /\ state.videoUrl = None
        /\ state.imageUrl = None

C6_Witness ==
    /\ \E c \in CallIds : calls[c].pc = "failed" /\ calls[c].mode = "restaurants"
    /\ state.error = Some(RecsErrMsg)

\* C7 as stated: from the moment a search starts no field of the session
\* state holds a value of a previous search: while the search is loading the
\* recommendation list, the raw text, the source list, the error, the video
\* reference and the image reference are all empty.
C7_Original ==
    state.isLoading =>
        /\ state.results = <<>>
        /\ (state.rawText = None \/ state.rawText = Some(<<>>))
        /\ NoSources
        /\ state.error = None
        /\ state.videoUrl = None
        /\ state.imageUrl = None

(***************************************************************************)
(* Claims about the Mode Resolver and the recipe configuration             *)
(* (SpecConfig).                                                           *)
(***************************************************************************)
ResolverReturned == cfg.fn = "getModelConfig" /\ cfg.pc = "returned"

NoRowModes == {"video", "image", UnknownMode}

NormalConfig == [tools |-> <<"googleSearch">>, thinkingConfig |-> None]

\* C8 as stated: for a mode value without a row of its own (video, image,
\* an unrecognized value) the resolver fails and never returns a
\* configuration.
C8_Original == ResolverReturned => cfg.mode \notin NoRowModes

\* C8 amended: the Mode Resolver has no error path: for a mode value without
\* a row of its own (video, image, an unrecognized value) it returns the
\* default configuration, that of normal: the standard model, web search, no
\* reasoning budget, no geographic bias, and no geolocation request.
C8_DefaultsWithoutError ==
    /\ cfg.pc \in {"idle", "locating", "returned"}
    /\ (ResolverReturned /\ cfg.mode \in NoRowModes) =>
          /\ cfg.out = Some([model |-> "gemini-2.5-flash", config |-> NormalConfig,
                             toolConfig |-> None])
          /\ ~cfg.geoAsked

C8_Witness == ResolverReturned /\ cfg.mode = UnknownMode /\ IsSome(cfg.out)

\* C9: for normal, fast, thinking, searchAgent and restaurants the resolver
\* returns exactly one tool entry and the configuration of the table; the
\* reasoning budget is set for thinking only.
C9_ConfigTable ==
    (ResolverReturned /\ cfg.mode \in AppModes \ {"video", "image"}) =>
        LET r == Val(cfg.out)
        IN  /\ Len(r.config.tools) = 1
            /\ r.model = (IF cfg.mode = "fast" THEN "gemini-2.5-flash-lite"
                          ELSE IF cfg.mode = "thinking" THEN "gemini-3-pro-preview"
                          ELSE "gemini-2.5-flash")
            /\ r.config.tools[1] =
                  (IF cfg.mode = "restaurants" THEN "googleMaps" ELSE "googleSearch")
            /\ r.config.thinkingConfig =
                  (IF cfg.mode = "thinking" THEN Some([thinkingBudget |-> 32768]) ELSE None)
            /\ cfg.mode # "restaurants" => r.toolConfig = None

C9_Witness ==
    /\ ResolverReturned
    /\ cfg.mode = "restaurants"
    /\ cfg.geoAsked
    /\ IsSome(Val(cfg.out).toolConfig)

\* C10: a recipe lookup with mode video, image, restaurants or searchAgent
\* uses exactly the configuration of normal (standard model, web search, no
\* reasoning budget, no geolocation request); with normal, fast or thinking
\* it uses that mode's own configuration.
C10_RecipeConfig ==
    cfg.fn = "getDishRecipe" =>
        /\ cfg.pc = "returned"
        /\ ~cfg.geoAsked
        /\ LET req == Val(cfg.out)
           IN  /\ cfg.mode \in {"video", "image", "restaurants", "search_agent", "normal"} =>
                     (req.model = "gemini-2.5-flash" /\ req.config = NormalConfig)
               /\ cfg.mode = "fast" =>
                     (req.model = "gemini-2.5-flash-lite" /\ req.config = NormalConfig)
               /\ cfg.mode = "thinking" =>
                     /\ req.model = "gemini-3-pro-preview"
                     /\ req.config = [tools |-> <<"googleSearch">>,
                                      thinkingConfig |-> Some([thinkingBudget |-> 32768])]

C10_Witness ==
    /\ cfg.fn = "getDishRecipe"
    /\ cfg.pc = "returned"
    /\ cfg.mode = "restaurants"
    /\ env.geolocation
    /\ Val(cfg.out).contents.dishName = "Ramen"

(***************************************************************************)
(* Claims about failures of a generation (Spec).                           *)
(***************************************************************************)
\* C11: a step in which handleSearch is invoked in video mode with an
\* attachment ends the invocation at once: it is failed without having
\* reached the job submission (no handle, no wait, no status refresh), and
\* the session holds the file-not-supported error, is not loading and has no
\* video reference.
C11_VideoWithFileFailsFirst ==
    [][\A c \in CallIds, q \in Queries, att \in AppAttachments :
          (mode = "video" /\ IsSome(att) /\ FreeSlot(c) /\ HandleSearch(c, q, att)) =>
              /\ calls'[c].pc = "failed"
              /\ calls'[c].op = None
              /\ calls'[c].notDone = 0
              /\ calls'[c].waits = 0
              /\ calls'[c].refreshes = 0
              /\ calls'[c].result = None
              /\ state'.error = Some(VideoFileMsg)
              /\ ~state'.isLoading
              /\ state'.videoUrl = None]_vars

C11_Witness ==
    /\ state.error = Some(VideoFileMsg)
    /\ state.videoUrl = None
    /\ \E c \in CallIds :
          /\ calls[c].mode = "video"
          /\ calls[c].pc = "failed"
          /\ calls[c].op = None
          /\ calls[c].refreshes = 0

(***************************************************************************)
(* Claims about which segments become items (SpecParse).                   *)
(***************************************************************************)
\* The segments of the response text: the pieces between start markers.
Segments == Split(ResponseText, ITEM_START)

\* The text of a segment before its first end marker.
BeforeEnd(seg) ==
    LET e == CHOOSE k \in 1..Len(seg) : seg[k] = ITEM_END /\ \A j \in 1..(k - 1) : seg[j] # ITEM_END
    IN  SubSeq(seg, 1, e - 1)

\* A field: its key followed, before the end marker, by a value.
HasField(body, key) ==
    \E i \in 1..Len(body) : body[i] = key /\ \E j \in (i + 1)..Len(body) : ~IsSpace(body[j])

CompleteSegment(seg) ==
    /\ \E k \in 1..Len(seg) : seg[k] = ITEM_END
    /\ HasField(BeforeEnd(seg), NAME)
    /\ HasField(BeforeEnd(seg), DESC)

CompleteSegments == {k \in 1..Len(Segments) : CompleteSegment(Segments[k])}

TwoGoodOneUnterminated ==
    /\ respPre \in PlainPreambles
    /\ Len(respSegs) = 3
    /\ Cardinality({i \in 1..3 : respSegs[i] \in GoodBlocks}) = 2
    /\ Cardinality({i \in 1..3 : ~respSegs[i].hasEnd /\ respSegs[i].hasName
                                  /\ respSegs[i].hasDesc}) = 1

\* C12: a segment of the response text yields an item if and only if it
\* holds the end marker and, before it, a Name field and a Description
\* field; every item has a non-empty title and description; the number of
\* items is the number of such segments; 2 well-formed blocks and 1
\* unterminated block give exactly 2 items.
C12_ItemIffCompleteSegment ==
    IsSome(parsed) =>
        LET items == Val(parsed)
        IN  /\ \A k \in 1..Len(Segments) :
                  (\E i \in 1..Len(items) : items[i].id = RecId(k - 1))
                      <=> CompleteSegment(Segments[k])
            /\ Len(items) = Cardinality(CompleteSegments)
            /\ \A i \in 1..Len(items) : items[i].title # <<>> /\ items[i].description # <<>>
            /\ TwoGoodOneUnterminated => Len(items) = 2

C12_Witness ==
    /\ IsSome(parsed)
    /\ TwoGoodOneUnterminated
    /\ ~respSegs[3].hasEnd
    /\ Len(Val(parsed)) = 2

\* The k-th smallest element of a set of numbers (k from 1).
Nth(S, k) == CHOOSE x \in S : Cardinality({y \in S : y < x}) = k - 1

\* C13 as stated: the k-th item of the returned list (k from 0, counted over
\* the kept items) has identifier rec-k.
C13_Original ==
    IsSome(parsed) =>
        \A k \in 0..(Len(Val(parsed)) - 1) : Val(parsed)[k + 1].id = RecId(k)

\* C13 amended: identifiers are assigned by position in the sequence of
\* segments before filtering: the items are in segment order and the item
\* made from segment j of the split on the start marker (j from 0, segment 0
\* being the text before the first marker) has identifier rec-j, so the
\* identifiers are distinct and increasing but skip the dropped segments.
C13_IdIsSegmentIndex ==
    IsSome(parsed) =>
        LET items == Val(parsed)
        IN  /\ Len(items) = Cardinality(CompleteSegments)
            /\ \A k \in 1..Len(items) : items[k].id = RecId(Nth(CompleteSegments, k) - 1)

C13_Witness ==
    /\ IsSome(parsed)
    /\ Len(respSegs) = 3
    /\ respSegs[1] \in GoodBlocks /\ respSegs[2] \in BadBlocks /\ respSegs[3] \in GoodBlocks
    /\ Len(Val(parsed)) = 2
    /\ Val(parsed)[1].id = "rec-1"
    /\ Val(parsed)[2].id = "rec-3"

(***************************************************************************)
(* Claims about a completed recommendation request (Spec).                 *)
(***************************************************************************)
RecsDone(c) == calls[c].pc = "done" /\ calls[c].mode \notin {"video", "image"}

\* C14: every item the Recommendation Service returns, and every item the
\* session holds, has an empty source list of its own, also when the
\* response carried grounding chunks; the sources are in the list of the
\* response.
C14_ItemsCarryNoSources ==
    /\ \A i \in 1..Len(state.results) : state.results[i].sources = <<>>
    /\ \A c \in CallIds :
          RecsDone(c) =>
              \A i \in 1..Len(Val(calls[c].result).recommendations) :
                  Val(calls[c].result).recommendations[i].sources = <<>>

C14_Witness ==
    /\ Len(state.results) > 0
    /\ state.results[1].sources = <<>>
    /\ IsSome(state.allSources)
    /\ Len(Val(state.allSources)) = 2
    /\ \E c \in CallIds : RecsDone(c) /\ Val(calls[c].result).allSources = Val(state.allSources)

\* C15: the step that completes a recommendation request whose response
\* text is not empty and parsed to no item leaves the session not loading,
\* without error and with the raw-text fallback rendered; and whenever the
\* fallback is rendered the recommendation list is empty, no video or image
\* reference is set, a non-empty raw text is held and nothing is loading.
C15_RawTextFallback ==
    /\ [][\A c \in CallIds :
             (/\ calls[c].pc = "request"
              /\ calls'[c].pc = "done"
              /\ Val(calls'[c].result).recommendations = <<>>
              /\ Val(calls'[c].result).rawText # <<>>) =>
                 /\ state'.error = None
                 /\ ~state'.isLoading
                 /\ state'.rawText = Some(Val(calls'[c].result).rawText)
                 /\ "rawText" \in Rendered'
                 /\ "error" \notin Rendered']_vars
    /\ []("rawText" \in Rendered =>
             /\ state.results = <<>>
             /\ state.videoUrl = None
             /\ state.imageUrl = None
             /\ IsSome(state.rawText) /\ Val(state.rawText) # <<>>
             /\ ~state.isLoading)

C15_Witness ==
    /\ "rawText" \in Rendered
    /\ state.error = None
    /\ \E c \in CallIds :
          /\ RecsDone(c)
          /\ Val(calls[c].result).recommendations = <<>>
          /\ Val(calls[c].result).rawText = <<"a", SP, "b">>
          /\ state.rawText = Some(Val(calls[c].result).rawText)

(***************************************************************************)
(* Claims about the recipe parser (SpecRecipe).                            *)
(***************************************************************************)
\* The text the parser works on once a response has arrived.
RecipeTextIn ==
    LET t == RecipeText(Val(recipeCall.input)) IN IF IsSome(t) THEN Val(t) ELSE <<>>

\* The first position from p on that holds no space (past the end if none).
FirstNonSpace(t, p) ==
    IF \E k \in p..Len(t) : ~IsSpace(t[k])
    THEN CHOOSE k \in p..Len(t) : ~IsSpace(t[k]) /\ \A j \in p..(k - 1) : IsSpace(t[j])
    ELSE Len(t) + 1

\* The position after a marker that starts at p and the spaces behind it,
\* or p when no such marker starts there.
SkipDash(t, p) == IF p <= Len(t) /\ t[p] = DASH THEN FirstNonSpace(t, p + 1) ELSE p

SkipStar(t, p) == IF p <= Len(t) /\ t[p] = STAR THEN FirstNonSpace(t, p + 1) ELSE p

SkipOrdinal(t, p) ==
    LET runs == {n \in 0..(Len(t) - p + 1) : \A j \in p..(p + n - 1) : t[j] \in Digits}
        n == CHOOSE m \in runs : \A k \in runs : k <= m
    IN  IF n >= 1 /\ p + n <= Len(t) /\ t[p + n] = DOT
        THEN FirstNonSpace(t, p + n + 1)
        ELSE p

From(t, p) == SubSeq(t, p, Len(t))

\* The lines of a block, trimmed and without a leading dash and then a
\* leading asterisk, the empty ones left out.
KeptIngredients(lines) ==
    SelectSeq([i \in 1..Len(lines) |->
                  LET t == Trim(lines[i]) IN From(t, SkipStar(t, SkipDash(t, 1)))],
              NotEmptyLine)

\* The lines of a block, trimmed and without a leading ordinal, the empty
\* ones left out.
KeptInstructions(lines) ==
    SelectSeq([i \in 1..Len(lines) |-> LET t == Trim(lines[i]) IN From(t, SkipOrdinal(t, 1))],
              NotEmptyLine)

\* C16: whenever a response has arrived the call has returned a Recipe; if
\* the text holds no PREP_TIME: the Recipe's prepTime is "Varies", and if it
\* holds no SERVINGS: its servings is "Varies".
C16_MissingScalarIsVaries ==
    IsSome(recipeCall.input) =>
        /\ recipeCall.pc = "returned"
        /\ IsSome(recipeCall.out)
        /\ ~Includes(RecipeTextIn, PREP_TIME) => Val(recipeCall.out).prepTime = Varies
        /\ ~Includes(RecipeTextIn, SERVINGS) => Val(recipeCall.out).servings = Varies

C16_Witness ==
    /\ recipeCall.pc = "returned"
    /\ IsSome(recipeCall.input)
    /\ Val(recipeCall.input).hasText
    /\ ~Includes(RecipeTextIn, PREP_TIME)
    /\ Includes(RecipeTextIn, SERVINGS)
    /\ Val(recipeCall.out).prepTime = <<"Varies">>
    /\ Val(recipeCall.out).servings = <<"b">>

\* C17: whenever a response has arrived the call has returned a Recipe; a
\* block whose start marker is not in the text (also when the response has
\* no text) gives an empty list, and when only one block is missing the
\* other block's list is the list of its lines.
C17_MissingBlockIsEmptyList ==
    IsSome(recipeCall.input) =>
        LET input == Val(recipeCall.input)
            r == Val(recipeCall.out)
        IN  /\ recipeCall.pc = "returned"
            /\ IsSome(recipeCall.out)
            /\ ~Includes(RecipeTextIn, INGREDIENTS_START) => r.ingredients = <<>>
            /\ ~Includes(RecipeTextIn, INSTRUCTIONS_START) => r.instructions = <<>>
            /\ (input.ing.kind = "absent" /\ input.ins.kind # "absent") =>
                   r.instructions = KeptInstructions(input.ins.lines)
            /\ (input.ins.kind = "absent" /\ input.ing.kind # "absent") =>
                   r.ingredients = KeptIngredients(input.ing.lines)

C17_Witness ==
    /\ recipeCall.pc = "returned"
    /\ IsSome(recipeCall.input)
    /\ Val(recipeCall.input).ing.kind = "absent"
    /\ Val(recipeCall.input).ins = RecipeBlock("closed", << <<"1", DOT, SP, "a">>, <<DASH, SP, "a">> >>)
    /\ Val(recipeCall.out).ingredients = <<>>
    /\ Val(recipeCall.out).instructions = << <<"a">>, <<DASH, SP, "a">> >>

\* The lines of a block, trimmed and without a leading marker of any of the
\* three kinds, the empty ones left out.
KeptUnmarked(lines) ==
    SelectSeq([i \in 1..Len(lines) |->
                  LET t == Trim(lines[i])
                  IN  From(t, SkipOrdinal(t, SkipStar(t, SkipDash(t, 1))))],
              NotEmptyLine)

BothClosed ==
    /\ IsSome(recipeCall.input)
    /\ Val(recipeCall.input).ing.kind = "closed"
    /\ Val(recipeCall.input).ins.kind = "closed"

\* C18 as stated: every line of the ingredients block and of the
\* instructions block loses its leading dash, asterisk or ordinal, and the
\* lines that are then empty are dropped.
C18_Original ==
    BothClosed =>
        /\ Val(recipeCall.out).ingredients = KeptUnmarked(Val(recipeCall.input).ing.lines)
        /\ Val(recipeCall.out).instructions = KeptUnmarked(Val(recipeCall.input).ins.lines)

\* C18 amended: every line of the ingredients block is trimmed and loses a
\* leading dash and then a leading asterisk (an ordinal is kept); every line
\* of the instructions block is trimmed and loses a leading ordinal (a dash
\* or an asterisk is kept); the lines that are then empty are dropped.
C18_MarkersPerBlock ==
    BothClosed =>
        /\ Val(recipeCall.out).ingredients =
               KeptIngredients(Val(recipeCall.input).ing.lines)
        /\ Val(recipeCall.out).instructions =
               KeptInstructions(Val(recipeCall.input).ins.lines)

C18_Witness ==
    /\ BothClosed
    /\ Val(recipeCall.input).ing.lines = << <<DASH, SP, "a">>, <<"1", DOT, SP, "a">> >>
    /\ Val(recipeCall.input).ins.lines = << <<"1", DOT, SP, "a">>, <<DASH, SP, "a">> >>
    /\ Val(recipeCall.out).ingredients = << <<"a">>, <<"1", DOT, SP, "a">> >>
    /\ Val(recipeCall.out).instructions = << <<"a">>, <<DASH, SP, "a">> >>

(***************************************************************************)
(* Claims about the end of a generation (Spec).                            *)
(***************************************************************************)
\* C19: while a video call is in its poll loop the latest handle is not
\* done, nothing has been returned and the session is loading without error
\* or video reference; the call ends only in a step that brings a done
\* handle or in which the transport raises (no new handle); and a handle
\* that is not done always sends the call to the next wait, however many
\* came before it.
C19_LoopEndsOnlyOnDoneOrRaise ==
    /\ [](\A c \in CallIds :
             calls[c].pc \in {"wait", "refresh"} =>
                 /\ IsSome(calls[c].op)
                 /\ ~Val(calls[c].op).done
                 /\ calls[c].result = None
                 /\ state.isLoading
                 /\ state.error = None
                 /\ state.videoUrl = None)
    /\ [][\A c \in CallIds :
             calls[c].pc \in {"submit", "wait", "refresh"} =>
                 /\ calls'[c].pc \in {"done", "failed"} =>
                        \/ IsSome(calls'[c].op) /\ Val(calls'[c].op).done
                        \/ /\ calls'[c].pc = "failed"
                           /\ calls'[c].op = calls[c].op
                           /\ calls'[c].notDone = calls[c].notDone
                 /\ calls'[c].notDone = calls[c].notDone + 1 =>
                        /\ calls'[c].pc = "wait"
                        /\ ~Val(calls'[c].op).done
                        /\ state' = state]_vars

C19_Witness ==
    \E c \in CallIds :
        /\ calls[c].mode = "video"
        /\ calls[c].pc = "wait"
        /\ calls[c].notDone = MaxPolls
        /\ calls[c].refreshes = MaxPolls - 1
        /\ ~Val(calls[c].op).done
        /\ state.isLoading

\* What the session holds after a generation that failed with msg.
GenerationFailed(st, cr, msg) ==
    /\ cr.pc = "failed"
    /\ cr.result = None
    /\ st.error = Some(msg)
    /\ ~st.isLoading
    /\ st.videoUrl = None
    /\ st.imageUrl = None

\* C20: a step that brings a done video handle without media URI fails the
\* call and leaves the could-not-generate-video error and no video or image
\* reference; with a URI the call returns the URI followed by the credential
\* suffix, which becomes the video reference.  A step that brings an image
\* response without inline part fails the call and leaves the
\* could-not-generate-image error and no reference; with an inline part the
\* call returns the data URL of the first such part, which becomes the
\* image reference.
C20_PayloadOrError ==
    [][\A c \in CallIds :
          /\ (/\ calls[c].pc \in {"submit", "refresh"}
              /\ IsSome(calls'[c].op)
              /\ Val(calls'[c].op).done) =>
                 IF Val(calls'[c].op).uri = None
                 THEN GenerationFailed(state', calls'[c], VideoErrMsg)
                 ELSE /\ calls'[c].pc = "done"
                      /\ calls'[c].result = Some(Val(Val(calls'[c].op).uri) \o "&key=" \o API_KEY)
                      /\ state'.videoUrl = calls'[c].result
                      /\ state'.imageUrl = None
                      /\ state'.error = None
                      /\ ~state'.isLoading
          /\ \A parts \in ImageResponses :
                 (calls[c].pc = "image" /\ OnImage(c, calls[c], parts)) =>
                     IF \A i \in 1..Len(parts) : parts[i].inlineData = None
                     THEN GenerationFailed(state', calls'[c], ImageErrMsg)
                     ELSE /\ calls'[c].pc = "done"
                          /\ calls'[c].result = Some(FirstInline(parts))
                          /\ parts[1] = InlinePart("image/jpeg", "BBBB") =>
                                 calls'[c].result = Some("data:image/jpeg;base64,BBBB")
                          /\ state'.imageUrl = calls'[c].result
                          /\ state'.videoUrl = None
                          /\ state'.error = None
                          /\ ~state'.isLoading]_vars

C20_Witness ==
    \E c \in CallIds :
        /\ calls[c].mode = "video"
        /\ IsSome(calls[c].op)
        /\ Val(calls[c].op).done
        /\ Val(calls[c].op).uri = None
        /\ GenerationFailed(state, calls[c], VideoErrMsg)

(***************************************************************************)
(* Claims about the services called directly (SpecServices).               *)
(***************************************************************************)
\* C21: a call of either service has called generateContent exactly once
\* from the moment its request is out, and not at all before; from its
\* request the call goes only to its return or to its rejection; a rejected
\* call has returned nothing and a returned call has a result.
C21_OneRequestPerCall ==
    /\ [](/\ svc.pc \in {"idle", "locating"} => svc.sent = 0
          /\ svc.pc \in {"request", "returned", "thrown"} => svc.sent = 1
          /\ svc.pc = "thrown" => svc.out = None
          /\ svc.pc = "returned" => IsSome(svc.out))
    /\ [][svc.pc = "request" => svc'.pc \in {"returned", "thrown"}]_vars

C21_Witness ==
    /\ svc.fn = "getFoodRecommendations"
    /\ svc.pc = "thrown"
    /\ svc.geoAsked
    /\ svc.sent = 1

\* C22: the position is asked for exactly by getFoodRecommendations in
\* restaurants mode with a provider present; whatever the provider answers
\* the call goes on to its request (a call is rejected only after its
\* request); the request carries the retrieval configuration with the
\* position exactly when a position was obtained, and never in another mode.
C22_ResolverNeverFails ==
    /\ [](svc.geoAsked <=> /\ svc.fn = "getFoodRecommendations"
                           /\ svc.mode = "restaurants"
                           /\ env.geolocation)
    /\ [](IsSome(svc.location) <=> svc.outcome = "position")
    /\ [](svc.pc = "thrown" => svc.sent = 1)
    /\ []((svc.fn = "getFoodRecommendations" /\ IsSome(svc.request)) =>
             LET r == Val(svc.request)
             IN  /\ IsSome(r.config.toolConfig) <=> IsSome(svc.location)
                 /\ IsSome(svc.location) =>
                       Val(r.config.toolConfig).retrievalConfig.latLng = Val(svc.location)
                 /\ svc.mode = "restaurants" => svc.outcome \in {"absent"} \cup GeoOutcomes
                 /\ svc.mode # "restaurants" => svc.outcome = "none")
    /\ [][svc.pc = "locating" => svc'.pc = "request" /\ IsSome(svc'.request)]_vars

C22_Witness ==
    /\ svc.mode = "restaurants"
    /\ svc.outcome = "timeout"
    /\ svc.pc = "returned"
    /\ Val(svc.request).config.toolConfig = None

\* C23 as stated: with an attachment the request holds the payload part
\* first and the text part last and the text is the analysis instruction of
\* the attachment's family; without one the text is the wording of the mode.
C23_Original ==
    (svc.fn = "getFoodRecommendations" /\ IsSome(svc.request)) =>
        LET r == Val(svc.request)
            n == Len(r.contents)
            w == r.contents[n].text.wording
        IN  IF IsSome(svc.att)
            THEN /\ n = 2
                 /\ r.contents[1].inlineData = Val(svc.att)
                 /\ w \in {"analyze image", "analyze text", "analyze audio", "analyze video"}
            ELSE /\ n = 1
                 /\ w \in {"standard", "restaurants", "research"}

(***************************************************************************)
(* Claims about the recipe modal (SpecModal).                              *)
(***************************************************************************)
\* C27 as stated: once cook mode is off or the modal is closed and no lock
\* request is pending, no wake lock is held (here even granting that no
\* release was rejected).
C27_Original ==
    (/\ ~modal.open \/ ~modal.isCookMode
     /\ modal.pending = 0 /\ modal.stalePending = 0
     /\ ~modal.releaseFailed)
        => ~LockHeld(modal)

\* C28 as stated: at most one of loading, error message and recipe is set.
C28_Original ==
    /\ ~(modal.loading /\ IsSome(modal.error))
    /\ ~(modal.loading /\ IsSome(modal.recipe))
    /\ ~(IsSome(modal.error) /\ IsSome(modal.recipe))

\* C29 as stated: whenever the cook mode UI is rendered the current step
\* is an index of the instruction list.
C29_Original ==
    CookModeShown(modal) =>
        /\ 0 <= modal.currentStep
        /\ modal.currentStep < Len(Val(modal.recipe).instructions)

(***************************************************************************)
(* Claims about overlapping searches (SpecRace).                           *)
(***************************************************************************)
\* The session state st is what the settled call cr alone leaves behind.
OwnCompletion(cr, st) ==
    /\ ~st.isLoading
    /\ IF cr.pc = "failed"
       THEN /\ st.error \in
                 (IF cr.mode = "video" THEN {Some(VideoFileMsg), Some(VideoErrMsg)}
                  ELSE IF cr.mode = "image" THEN {Some(ImageFileMsg), Some(ImageErrMsg)}
                  ELSE {Some(RecsErrMsg)})
            /\ st.results = <<>> /\ st.rawText = None /\ st.allSources = Some(<<>>)
            /\ st.videoUrl = None /\ st.imageUrl = None
       ELSE /\ st.error = None
            /\ IF cr.mode = "video"
               THEN /\ st.videoUrl = cr.result /\ st.imageUrl = None
                    /\ st.results = <<>> /\ st.rawText = None /\ st.allSources = None
               ELSE IF cr.mode = "image"
               THEN /\ st.imageUrl = cr.result /\ st.videoUrl = None
                    /\ st.results = <<>> /\ st.rawText = None /\ st.allSources = None
               ELSE /\ st.results = Val(cr.result).recommendations
                    /\ st.rawText = Some(Val(cr.result).rawText)
                    /\ st.allSources = Some(Val(cr.result).allSources)
                    /\ st.videoUrl = None /\ st.imageUrl = None

\* The request of the call cr holds the call's own query and attachment and
\* the configuration of the mode the call was made in.
OwnRequest(cr) ==
    LET r == Val(cr.request)
        n == Len(r.contents)
    IN  /\ n = (IF IsSome(cr.att) THEN 2 ELSE 1)
        /\ r.contents[n].text.query = cr.query
        /\ IsSome(cr.att) => r.contents[1].inlineData = Val(cr.att)
        /\ r.model = (IF cr.mode = "fast" THEN "gemini-2.5-flash-lite"
                      ELSE IF cr.mode = "thinking" THEN "gemini-3-pro-preview"
                      ELSE "gemini-2.5-flash")
        /\ r.config.tools =
              (IF cr.mode = "restaurants" THEN <<"googleMaps">> ELSE <<"googleSearch">>)
        /\ cr.mode # "restaurants" => r.config.toolConfig = None

\* C24: with two calls of handleSearch overlapping, a request that is out
\* was built from its own call's query, attachment and mode, whatever the
\* other call and the mode buttons did meanwhile; and every step in which a
\* call settles replaces the whole session state by what that call alone
\* leaves behind, so that the state after the last completion holds no
\* field of an earlier one.
C24_LastCompletionWins ==
    /\ [](\A c \in CallIds : calls[c].pc = "request" => OwnRequest(calls[c]))
    /\ [][\A c \in CallIds :
             (calls'[c].pc # calls[c].pc /\ calls'[c].pc \in {"done", "failed"})
                 => OwnCompletion(calls'[c], state')]_vars
    /\ [](InFlight = {} /\ calls[1].pc # "idle" =>
             \E c \in CallIds : calls[c].pc # "idle" /\ OwnCompletion(calls[c], state))

\* Both calls have settled, the one in restaurants mode after the video.
C24_Witness ==
    /\ calls[1].pc = "done" /\ calls[1].mode = "video"
    /\ calls[2].pc = "done" /\ calls[2].mode = "restaurants"
    /\ calls[2].geoAsked
    /\ state.videoUrl = None
    /\ Len(state.results) > 0

(***************************************************************************)
(* Claims about the session as a whole (Spec).                             *)
(***************************************************************************)
\* C26: through the events of the page at most one search is in flight at
\* any time: while the loading flag is true no step starts a search (no
\* settled slot is taken by a new invocation), and a step that changes the
\* mode leaves the calls and the session state as they are.
C26_OneSearchThroughUI ==
    /\ [](Cardinality(InFlight) <= 1)
    /\ [][/\ state.isLoading => \A c \in CallIds : Settled(c) => calls'[c] = calls[c]
          /\ mode' # mode => calls' = calls /\ state' = state]_vars

C26_Witness ==
    \E c \in CallIds :
        /\ ~Settled(c)
        /\ state.isLoading
        /\ mode # calls[c].mode
        /\ \A d \in CallIds : d # c => Settled(d)

\* C25: a search in flight eventually completes, and the state it completes
\* into has the loading flag false; the flag is true exactly while a search
\* is in flight.
C25_LoadingEnds ==
    /\ InFlight # {} ~> (InFlight = {} /\ ~state.isLoading)
    /\ [](state.isLoading <=> InFlight # {})

C25_Witness ==
    \E c \in CallIds :
        /\ calls[c].pc = "failed"
        /\ calls[c].mode = "video"
        /\ calls[c].notDone = MaxPolls
        /\ ~state.isLoading

\* C30 as stated: in every state reached by completing a search (loading
\* false) at least one of the cards, the raw text, the video, the image or
\* the error message is displayed.
C30_Original ==
    (~state.isLoading /\ \E c \in CallIds : calls[c].pc \in {"done", "failed"})
        => Rendered \cap {"results", "rawText", "video", "image", "error"} # {}

====
